---- MODULE Spec2Model ----
(***************************************************************************)
(* History analyzer of repo-therapist (src/historian/analyze-history.ts),   *)
(* the cache of analyzed repositories (src/cache.ts) and the tools that    *)
(* write and read it (src/tools/analyze-repo.ts, src/tools/get-history.ts).*)
(*                                                                         *)
(* The state is a repository (does .git exist, what does `git log` return),*)
(* the result of the last analyzeGitHistory call, the exported repoCache,  *)
(* the calls made on the cache so far (ops) and the last answer of a       *)
(* reading tool (reply).  Time is counted in                               *)
(* hours instead of milliseconds; only differences of timestamps are used  *)
(* by the code, so the analysis instant is fixed and the commit dates      *)
(* vary.  Fractional line counts (insertions / number of files) are kept   *)
(* exactly, as integers in units of 1/Scale line.                          *)
(***************************************************************************)
EXTENDS Integers, Sequences, FiniteSets, TLC

VARIABLES gitDir, log, call, history, repoCache, ops, reply

vars == <<gitDir, log, call, history, repoCache, ops, reply>>

\* ------------------------------------------------------------------ values

\* null where an object is expected, and where a string is expected.
Null == [null |-> TRUE]
NullString == "(null)"

\* history before analyzeGitHistory was called.
NotAnalyzed == [notAnalyzed |-> TRUE]

\* Outcome of a call that ends with an uncaught exception.
Raised == [raised |-> TRUE]

\* undefined where an object is expected (a parameter that was not passed,
\* Map.get of a missing key), and where a string is expected.
Undefined == [undefined |-> TRUE]
UndefinedString == "(undefined)"

\* reply before a reading tool was called.
NoReply == [tool |-> "none"]

\* call before analyzeGitHistory was called.
NoCall == [fault |-> "not-called", nowChurn |-> 0, nowPattern |-> 0]

\* 24 * 60 * 60 * 1000 ms in the source; one day in the model's time unit.
Day == 24

\* Date.now() when the analysis starts.
AnalysisTime == 2000 * Day

\* Paths of the modelled repository, in the order `git diff --name-only`
\* prints them.
Paths == <<"package.json", "src/app.ts">>

\* path.includes("config") || path.endsWith(".json")
IsConfigPath(path) ==
  path \in {"package.json", "package-lock.json", "src/config/db.ts"}

Max(a, b) == IF a >= b THEN a ELSE b
Min(a, b) == IF a <= b THEN a ELSE b

RECURSIVE Gcd(_, _)
Gcd(a, b) == IF b = 0 THEN a ELSE Gcd(b, a % b)

RECURSIVE LcmUpTo(_)
LcmUpTo(n) == IF n <= 1 THEN 1 ELSE (LcmUpTo(n - 1) * n) \div Gcd(LcmUpTo(n - 1), n)

\* Line counts are stored multiplied by Scale, so that a commit's total
\* divided by its number of files is an integer.
Scale == LcmUpTo(Len(Paths))

\* Math.round of the non-negative rational num / den (halves round up).
Round(num, den) == (2 * num + den) \div (2 * den)

\* Math.floor of the non-negative rational num / den.
Floor(num, den) == num \div den

RECURSIVE SumSeq(_)
SumSeq(s) == IF s = <<>> THEN 0 ELSE Head(s) + SumSeq(Tail(s))

\* Array.prototype.filter
RECURSIVE Filter(_, _)
Filter(s, keep) ==
  IF s = <<>> THEN <<>>
  ELSE IF keep[1] THEN <<Head(s)>> \o Filter(Tail(s), Tail(keep))
  ELSE Filter(Tail(s), Tail(keep))

\* Array.prototype.slice(0, n)
Slice(s, n) == SubSeq(s, 1, Min(n, Len(s)))

\* Array.prototype.sort with comparator (a, b) => key(a) - key(b): a stable
\* sort, ascending in keys[i], of the items s[i].
RECURSIVE InsertByKey(_, _, _, _)
InsertByKey(items, keys, x, k) ==
  IF items = <<>> THEN <<<<x>>, <<k>>>>
  ELSE IF Head(keys) <= k
       THEN LET r == InsertByKey(Tail(items), Tail(keys), x, k)
            IN  <<<<Head(items)>> \o r[1], <<Head(keys)>> \o r[2]>>
       ELSE <<<<x>> \o items, <<k>> \o keys>>

RECURSIVE SortPairs(_, _)
SortPairs(s, keys) ==
  IF s = <<>> THEN <<<<>>, <<>>>>
  ELSE LET n == Len(s)
           r == SortPairs(SubSeq(s, 1, n - 1), SubSeq(keys, 1, n - 1))
       IN  InsertByKey(r[1], r[2], s[n], keys[n])

SortAscending(s, keys) == SortPairs(s, keys)[1]
SortDescending(s, keys) == SortPairs(s, [i \in 1..Len(s) |-> 0 - keys[i]])[1]

\* ------------------------------------------------------ commit extraction

\* messageLower.includes("fix") || messageLower.includes("bug"); a message
\* is the set of keywords its lower-cased text contains.
isFix(message) == "fix" \in message \/ "bug" \in message

\* f.includes("node_modules")
IncludesNodeModules(f) == f \in {"node_modules/lib/index.js"}

\* diff.split("\n").filter(Boolean).filter((f) => !f.includes("node_modules"))
DiffNames(files) ==
  Filter(files, [i \in 1..Len(files) |-> ~IncludesNodeModules(files[i])])

\* message.toLowerCase().startsWith("merge"); the keyword "^merge" stands
\* for a text that begins with "merge".
isMerge(message) == "^merge" \in message

\* messageLower.includes("refactor")
isRefactor(message) == "refactor" \in message

\* CommitInfo that takes the files of a commit without parent from its log
\* entry.
CommitInfoWithRoot(entry) ==
  [author       |-> entry.author,
   email        |-> entry.email,
   timestamp    |-> entry.timestamp,
   filesChanged |-> DiffNames(entry.files),
   insertions   |-> IF entry.hasParent /\ ~entry.statFails
                    THEN entry.insertions ELSE 0,
   deletions    |-> IF entry.hasParent /\ ~entry.statFails
                    THEN entry.deletions ELSE 0,
   isMerge      |-> isMerge(entry.message),
   isRefactor   |-> isRefactor(entry.message),
   isFix        |-> isFix(entry.message)]

\* One iteration of the loop of processCommits: the diff against the parent
\* throws for a commit without parent, and the record keeps its defaults;
\* when the --stat diff throws after the --name-only diff succeeded,
\* filesChanged is already assigned and the line counts keep their
\* defaults.
CommitInfo(entry) ==
  [author       |-> entry.author,
   email        |-> entry.email,
   timestamp    |-> entry.timestamp,
   filesChanged |-> IF entry.hasParent THEN DiffNames(entry.files) ELSE <<>>,
   insertions   |-> IF entry.hasParent /\ ~entry.statFails
                    THEN entry.insertions ELSE 0,
   deletions    |-> IF entry.hasParent /\ ~entry.statFails
                    THEN entry.deletions ELSE 0,
   isMerge      |-> isMerge(entry.message),
   isRefactor   |-> isRefactor(entry.message),
   isFix        |-> isFix(entry.message)]

processCommits(entries) == [i \in 1..Len(entries) |-> CommitInfo(entries[i])]

\* ------------------------------------------------------------- file churn

\* Position of path among the keys of a record map, 0 when absent.
RECURSIVE IndexOf(_, _)
IndexOf(map, path) ==
  IF map = <<>> THEN 0
  ELSE IF map[Len(map)].path = path THEN Len(map)
  ELSE IndexOf(SubSeq(map, 1, Len(map) - 1), path)

HasKey(map, path) == IndexOf(map, path) /= 0
Lookup(map, path) == map[IndexOf(map, path)]
Keys(map) == [i \in 1..Len(map) |-> map[i].path]

Contains(s, x) == \E i \in 1..Len(s) : s[i] = x

\* calculateChurnScore with a commit of the last 30 days weighted 5.
calculateChurnScoreRecentFive(fc) ==
  LET totalChanges == fc.totalInsertions + fc.totalDeletions
  IN  Min(fc.totalCommits * 2, 30)
      + (IF fc.authorCount > 1 THEN (fc.authorCount - 1) * 5 ELSE 0)
      + (IF fc.authorCount > 3 THEN 10 ELSE 0)
      + fc.commitsLast30Days * 5
      + fc.commitsLast90Days * 1
      + (IF totalChanges > 500 * Scale THEN 10 ELSE 0)
      + (IF totalChanges > 1000 * Scale THEN 10 ELSE 0)

\* calculateChurnScore without the cap of the base score.
calculateChurnScoreUncapped(fc) ==
  LET totalChanges == fc.totalInsertions + fc.totalDeletions
  IN  fc.totalCommits * 2
      + (IF fc.authorCount > 1 THEN (fc.authorCount - 1) * 5 ELSE 0)
      + (IF fc.authorCount > 3 THEN 10 ELSE 0)
      + fc.commitsLast30Days * 3
      + fc.commitsLast90Days * 1
      + (IF totalChanges > 500 * Scale THEN 10 ELSE 0)
      + (IF totalChanges > 1000 * Scale THEN 10 ELSE 0)

calculateChurnScore(fc) ==
  LET totalChanges == fc.totalInsertions + fc.totalDeletions
  IN  Min(fc.totalCommits * 2, 30)
      + (IF fc.authorCount > 1 THEN (fc.authorCount - 1) * 5 ELSE 0)
      + (IF fc.authorCount > 3 THEN 10 ELSE 0)
      + fc.commitsLast30Days * 3
      + fc.commitsLast90Days * 1
      + (IF totalChanges > 500 * Scale THEN 10 ELSE 0)
      + (IF totalChanges > 1000 * Scale THEN 10 ELSE 0)

\* PushAuthor without the includes test.
PushAuthorAlways(authors, author) == Append(authors, author)

\* if (!fc.authors.includes(commit.author)) fc.authors.push(commit.author)
PushAuthor(authors, author) ==
  IF Contains(authors, author) THEN authors ELSE Append(authors, author)

\* ChurnTouch that counts as recent every commit of the last 90 days.
ChurnTouchRecentNinety(churn, commit, file, now) ==
  LET thirtyDaysAgo == now - 30 * Day
      ninetyDaysAgo == now - 90 * Day
      fresh == [path |-> file, totalCommits |-> 0, totalInsertions |-> 0,
                totalDeletions |-> 0, netChange |-> 0, authors |-> <<>>,
                authorCount |-> 0, firstCommit |-> commit.timestamp,
                lastCommit |-> commit.timestamp, daysSinceLastChange |-> 0,
                commitsLast30Days |-> 0, commitsLast90Days |-> 0,
                churnScore |-> 0]
      c0 == IF HasKey(churn, file) THEN churn ELSE Append(churn, fresh)
      i  == IndexOf(c0, file)
      fc == c0[i]
      n  == Max(Len(commit.filesChanged), 1)
  IN  [c0 EXCEPT ![i] =
        [fc EXCEPT
          !.totalCommits = @ + 1,
          !.totalInsertions = @ + (commit.insertions * Scale) \div n,
          !.totalDeletions = @ + (commit.deletions * Scale) \div n,
          !.authors = PushAuthor(@, commit.author),
          !.firstCommit = IF commit.timestamp < @ THEN commit.timestamp ELSE @,
          !.lastCommit = IF commit.timestamp > @ THEN commit.timestamp ELSE @,
          !.commitsLast30Days = IF commit.timestamp > ninetyDaysAgo
                                THEN @ + 1 ELSE @,
          !.commitsLast90Days = IF commit.timestamp > ninetyDaysAgo
                                THEN @ + 1 ELSE @]]

\* Body of the inner loop of analyzeFileChurn for one (commit, file).
ChurnTouch(churn, commit, file, now) ==
  LET thirtyDaysAgo == now - 30 * Day
      ninetyDaysAgo == now - 90 * Day
      fresh == [path |-> file, totalCommits |-> 0, totalInsertions |-> 0,
                totalDeletions |-> 0, netChange |-> 0, authors |-> <<>>,
                authorCount |-> 0, firstCommit |-> commit.timestamp,
                lastCommit |-> commit.timestamp, daysSinceLastChange |-> 0,
                commitsLast30Days |-> 0, commitsLast90Days |-> 0,
                churnScore |-> 0]
      c0 == IF HasKey(churn, file) THEN churn ELSE Append(churn, fresh)
      i  == IndexOf(c0, file)
      fc == c0[i]
      n  == Max(Len(commit.filesChanged), 1)
  IN  [c0 EXCEPT ![i] =
        [fc EXCEPT
          !.totalCommits = @ + 1,
          !.totalInsertions = @ + (commit.insertions * Scale) \div n,
          !.totalDeletions = @ + (commit.deletions * Scale) \div n,
          !.authors = PushAuthor(@, commit.author),
          !.firstCommit = IF commit.timestamp < @ THEN commit.timestamp ELSE @,
          !.lastCommit = IF commit.timestamp > @ THEN commit.timestamp ELSE @,
          !.commitsLast30Days = IF commit.timestamp > thirtyDaysAgo
                                THEN @ + 1 ELSE @,
          !.commitsLast90Days = IF commit.timestamp > ninetyDaysAgo
                                THEN @ + 1 ELSE @]]

\* The inner loop of analyzeFileChurn, over the files of one commit.  (The
\* comparison of lengths is never true: it makes TLC compute the entries
\* of one iteration before it starts the following one.)
RECURSIVE ChurnFiles(_, _, _, _)
ChurnFiles(churn, commit, files, now) ==
  IF files = <<>> THEN churn
  ELSE LET next == ChurnTouch(churn, commit, Head(files), now)
       IN  IF Len(next) < Len(churn) THEN churn
           ELSE ChurnFiles(next, commit, Tail(files), now)

\* The outer loop of analyzeFileChurn, over the commits.
RECURSIVE ChurnCommits(_, _, _)
ChurnCommits(churn, commits, now) ==
  IF commits = <<>> THEN churn
  ELSE LET next == ChurnFiles(churn, Head(commits),
                              Head(commits).filesChanged, now)
       IN  IF Len(next) < Len(churn) THEN churn
           ELSE ChurnCommits(next, Tail(commits), now)

\* Second loop of analyzeFileChurn: the derived values of one entry.
ChurnDerive(fc0, now) ==
  LET fc == [fc0 EXCEPT
               !.authorCount = Len(fc0.authors),
               !.netChange = fc0.totalInsertions - fc0.totalDeletions,
               !.daysSinceLastChange = Floor(now - fc0.lastCommit, Day)]
  IN  [fc EXCEPT !.churnScore = calculateChurnScore(fc)]

\* The result is the sequence of entries in key insertion order
\* (Object.keys / Object.entries order).
analyzeFileChurn(commits, now) ==
  LET churn == ChurnCommits(<<>>, commits, now)
  IN  [i \in 1..Len(churn) |-> ChurnDerive(churn[i], now)]

\* ---------------------------------------------------------- author stats

\* Index in stats of the entry with key name, 0 when there is none.
RECURSIVE AuthorIndex(_, _)
AuthorIndex(stats, name) ==
  IF stats = <<>> THEN 0
  ELSE IF stats[Len(stats)].name = name THEN Len(stats)
  ELSE AuthorIndex(SubSeq(stats, 1, Len(stats) - 1), name)

\* Loop over commit.filesChanged that pushes the files not yet included.
RECURSIVE PushFiles(_, _)
PushFiles(filesContributed, files) ==
  IF files = <<>> THEN filesContributed
  ELSE PushFiles(IF Contains(filesContributed, Head(files))
                 THEN filesContributed
                 ELSE Append(filesContributed, Head(files)),
                 Tail(files))

\* AuthorTouch that takes the email from every commit of the author.
AuthorTouchEveryEmail(stats, commit) ==
  LET fresh == [name |-> commit.author, email |-> commit.email,
                totalCommits |-> 0, totalInsertions |-> 0,
                totalDeletions |-> 0, filesContributed |-> <<>>,
                firstCommit |-> commit.timestamp,
                lastCommit |-> commit.timestamp,
                activeDays |-> 0, averageCommitsPerDay |-> 0]
      s0 == IF AuthorIndex(stats, commit.author) /= 0 THEN stats
            ELSE Append(stats, fresh)
      i  == AuthorIndex(s0, commit.author)
  IN  [s0 EXCEPT ![i] =
        [s0[i] EXCEPT
          !.email = commit.email,
          !.totalCommits = @ + 1,
          !.totalInsertions = @ + commit.insertions,
          !.totalDeletions = @ + commit.deletions,
          !.filesContributed = PushFiles(@, commit.filesChanged),
          !.firstCommit = IF commit.timestamp < @ THEN commit.timestamp ELSE @,
          !.lastCommit = IF commit.timestamp > @ THEN commit.timestamp ELSE @]]

\* Body of the first loop of analyzeAuthorStats for one commit; the entry
\* of an author is created, with the email, by the first commit of the
\* author that the loop meets.
AuthorTouch(stats, commit) ==
  LET fresh == [name |-> commit.author, email |-> commit.email,
                totalCommits |-> 0, totalInsertions |-> 0,
                totalDeletions |-> 0, filesContributed |-> <<>>,
                firstCommit |-> commit.timestamp,
                lastCommit |-> commit.timestamp,
                activeDays |-> 0, averageCommitsPerDay |-> 0]
      s0 == IF AuthorIndex(stats, commit.author) /= 0 THEN stats
            ELSE Append(stats, fresh)
      i  == AuthorIndex(s0, commit.author)
  IN  [s0 EXCEPT ![i] =
        [s0[i] EXCEPT
          !.totalCommits = @ + 1,
          !.totalInsertions = @ + commit.insertions,
          !.totalDeletions = @ + commit.deletions,
          !.filesContributed = PushFiles(@, commit.filesChanged),
          !.firstCommit = IF commit.timestamp < @ THEN commit.timestamp ELSE @,
          !.lastCommit = IF commit.timestamp > @ THEN commit.timestamp ELSE @]]

\* The first loop of analyzeAuthorStats.  (The comparison of lengths is
\* never true: it makes TLC compute one iteration before the next.)
RECURSIVE AuthorCommits(_, _)
AuthorCommits(stats, commits) ==
  IF commits = <<>> THEN stats
  ELSE LET next == AuthorTouch(stats, Head(commits))
       IN  IF Len(next) < Len(stats) THEN stats
           ELSE AuthorCommits(next, Tail(commits))

\* Second loop of analyzeAuthorStats; averageCommitsPerDay is kept in
\* hundredths: Math.round(x * 100) without the final division by 100.
AuthorDerive(author) ==
  LET daySpan == Max(1, Floor(author.lastCommit - author.firstCommit, Day))
  IN  [author EXCEPT
         !.activeDays = daySpan,
         !.averageCommitsPerDay = Round(author.totalCommits * 100, daySpan)]

\* The result is the sequence of entries in key insertion order.
analyzeAuthorStats(commits) ==
  LET stats == AuthorCommits(<<>>, commits)
  IN  [i \in 1..Len(stats) |-> AuthorDerive(stats[i])]

\* -------------------------------------------------------- file ownership

\* TallyTouch with a new author's count starting at 1 before the increment.
TallyTouchFromOne(tally, commit) ==
  LET known == \E i \in 1..Len(tally) : tally[i].author = commit.author
      t0 == IF known THEN tally
            ELSE Append(tally, [author |-> commit.author, count |-> 1,
                                lastCommit |-> commit.timestamp])
      i  == CHOOSE j \in 1..Len(t0) : t0[j].author = commit.author
  IN  [t0 EXCEPT ![i] =
        [@ EXCEPT !.count = @ + 1,
                  !.lastCommit = IF commit.timestamp > @
                                 THEN commit.timestamp ELSE @]]

\* fileAuthorCommits[file]: per author the number of commits that changed
\* file and the date of the newest of them, in order of first appearance.
TallyTouch(tally, commit) ==
  LET known == \E i \in 1..Len(tally) : tally[i].author = commit.author
      t0 == IF known THEN tally
            ELSE Append(tally, [author |-> commit.author, count |-> 0,
                                lastCommit |-> commit.timestamp])
      i  == CHOOSE j \in 1..Len(t0) : t0[j].author = commit.author
  IN  [t0 EXCEPT ![i] =
        [@ EXCEPT !.count = @ + 1,
                  !.lastCommit = IF commit.timestamp > @
                                 THEN commit.timestamp ELSE @]]

RECURSIVE fileAuthorCommits(_, _, _)
fileAuthorCommits(tally, commits, file) ==
  IF commits = <<>> THEN tally
  ELSE fileAuthorCommits(
         IF Contains(Head(commits).filesChanged, file)
         THEN TallyTouch(tally, Head(commits)) ELSE tally,
         Tail(commits), file)

\* Object.entries(authorData).map(...): the contributors of a file in
\* order of first appearance.
MappedContributors(fc, commits) ==
  LET authorData == fileAuthorCommits(<<>>, commits, fc.path)
  IN  [i \in 1..Len(authorData) |->
        [author     |-> authorData[i].author,
         commits    |-> authorData[i].count,
         percent    |-> Round(authorData[i].count * 100, fc.totalCommits),
         lastCommit |-> authorData[i].lastCommit]]

\* Contributors without the sort.
ContributorsUnsorted(fc, commits) == MappedContributors(fc, commits)

\* The contributors of a file before the slice to five, sorted by
\* descending commit count.
Contributors(fc, commits) ==
  LET mapped == MappedContributors(fc, commits)
  IN  SortDescending(mapped, [i \in 1..Len(mapped) |-> mapped[i].commits])

OwnershipClarity(contributors) ==
  IF Len(contributors) >= 3 /\ contributors[1].percent < 50 THEN "disputed"
  ELSE IF Len(contributors) >= 2 /\ contributors[1].percent < 70 THEN "shared"
  ELSE "clear"

OwnershipRecord(fc, commits) ==
  LET contributors == Contributors(fc, commits)
  IN  [path                 |-> fc.path,
       primaryAuthor        |-> IF Len(contributors) > 0
                                THEN contributors[1].author ELSE NullString,
       primaryAuthorPercent |-> IF Len(contributors) > 0
                                THEN contributors[1].percent ELSE 0,
       contributors         |-> Slice(contributors, 5),
       ownershipClarity     |-> OwnershipClarity(contributors)]

analyzeFileOwnership(fileChurn, commits) ==
  [i \in 1..Len(fileChurn) |-> OwnershipRecord(fileChurn[i], commits)]

\* ------------------------------------------------------------ stable core

\* StableCoreFilter without the test of the churn score.
StableCoreFilterNoScore(churn) ==
  /\ ~(churn.totalCommits < 2)
  /\ ~(churn.daysSinceLastChange < 60)
  /\ ~IsConfigPath(churn.path)

StableCoreFilter(churn) ==
  /\ ~(churn.totalCommits < 2)
  /\ ~(churn.daysSinceLastChange < 60)
  /\ ~(churn.churnScore > 15)
  /\ ~IsConfigPath(churn.path)

\* identifyStableCore without the sort by churn score.
identifyStableCoreUnsorted(fileChurn) ==
  LET kept == Filter(fileChurn,
                     [i \in 1..Len(fileChurn) |-> StableCoreFilter(fileChurn[i])])
  IN  Keys(Slice(kept, 15))

identifyStableCore(fileChurn) ==
  LET kept == Filter(fileChurn,
                     [i \in 1..Len(fileChurn) |-> StableCoreFilter(fileChurn[i])])
      sorted == SortAscending(kept, [i \in 1..Len(kept) |-> kept[i].churnScore])
  IN  Keys(Slice(sorted, 15))

\* ------------------------------------------------------------- hot paths

\* path.includes("package-lock") || path.includes("yarn.lock")
IsLockfile(path) == path \in {"package-lock.json", "yarn.lock"}

\* HotReasons with a reason for every churn score above 0.
HotReasonsAnyChurn(churn) ==
  (IF churn.churnScore > 50 THEN <<"Very high churn">>
   ELSE IF churn.churnScore > 0 THEN <<"High churn">> ELSE <<>>)
  \o (IF churn.commitsLast30Days >= 5 THEN <<"commits in last 30 days">>
      ELSE <<>>)
  \o (IF churn.authorCount >= 4 THEN <<"different authors">> ELSE <<>>)

\* The reasons of identifyHotPaths for a file, in the order of the pushes.
HotReasons(churn) ==
  (IF churn.churnScore > 50 THEN <<"Very high churn">>
   ELSE IF churn.churnScore > 30 THEN <<"High churn">> ELSE <<>>)
  \o (IF churn.commitsLast30Days >= 5 THEN <<"commits in last 30 days">>
      ELSE <<>>)
  \o (IF churn.authorCount >= 4 THEN <<"different authors">> ELSE <<>>)

\* HotRisk that takes the level from the churn score and the number of
\* authors only.
HotRiskScoreOnly(churn) ==
  LET afterScore == IF churn.churnScore > 50 THEN "high"
                    ELSE IF churn.churnScore > 30 THEN "medium" ELSE "low"
  IN  IF churn.authorCount >= 4 /\ afterScore = "low" THEN "medium"
      ELSE afterScore

\* riskLevel after the three tests of identifyHotPaths, which starts at
\* "low".
HotRisk(churn) ==
  LET afterScore == IF churn.churnScore > 50 THEN "high"
                    ELSE IF churn.churnScore > 30 THEN "medium" ELSE "low"
      afterRecent == IF churn.commitsLast30Days >= 5 THEN "high"
                     ELSE afterScore
  IN  IF churn.authorCount >= 4 /\ afterRecent = "low" THEN "medium"
      ELSE afterRecent

HotRecord(churn) ==
  [path          |-> churn.path,
   reasons       |-> HotReasons(churn),
   churnScore    |-> churn.churnScore,
   recentCommits |-> churn.commitsLast30Days,
   authorCount   |-> churn.authorCount,
   riskLevel     |-> HotRisk(churn)]

identifyHotPaths(fileChurn) ==
  LET sources == Filter(fileChurn,
                        [i \in 1..Len(fileChurn) |->
                           ~IsLockfile(fileChurn[i].path)])
      all == [i \in 1..Len(sources) |-> HotRecord(sources[i])]
      hotPaths == Filter(all, [i \in 1..Len(all) |-> Len(all[i].reasons) > 0])
  IN  Slice(SortDescending(hotPaths,
                           [i \in 1..Len(hotPaths) |-> hotPaths[i].churnScore]),
            20)

\* ---------------------------------------------------------- fragile files

\* fixCommitsPerFile[path] || 0
RECURSIVE fixCommitsPerFile(_, _)
fixCommitsPerFile(commits, path) ==
  IF commits = <<>> THEN 0
  ELSE (IF Head(commits).isFix /\ Contains(Head(commits).filesChanged, path)
        THEN 1 ELSE 0) + fixCommitsPerFile(Tail(commits), path)

\* Evidence with 'frequent-fixes' firing from two fix commits on.
EvidenceTwoFixes(churn, fixes) ==
  LET totalChange == churn.totalInsertions + churn.totalDeletions
  IN  (IF churn.churnScore > 40
       THEN <<[type |-> "high-churn",
               severity |-> Min(10, Floor(churn.churnScore, 5))]>>
       ELSE <<>>)
      \o (IF churn.authorCount >= 4
          THEN <<[type |-> "many-authors",
                  severity |-> Min(10, churn.authorCount)]>>
          ELSE <<>>)
      \o (IF fixes >= 2
          THEN <<[type |-> "frequent-fixes", severity |-> Min(10, fixes)]>>
          ELSE <<>>)
      \o (IF churn.commitsLast30Days >= 5 /\ churn.totalCommits <= 10
          THEN <<[type |-> "recent-rewrites", severity |-> 7]>>
          ELSE <<>>)
      \o (IF totalChange > 1000 * Scale /\ churn.totalCommits > 5
          THEN <<[type |-> "yo-yo-changes",
                  severity |-> Min(10, Floor(totalChange, 200 * Scale))]>>
          ELSE <<>>)

\* Evidence with the severity of 'yo-yo-changes' not capped at 10.
EvidenceYoYoUncapped(churn, fixes) ==
  LET totalChange == churn.totalInsertions + churn.totalDeletions
  IN  (IF churn.churnScore > 40
       THEN <<[type |-> "high-churn",
               severity |-> Min(10, Floor(churn.churnScore, 5))]>>
       ELSE <<>>)
      \o (IF churn.authorCount >= 4
          THEN <<[type |-> "many-authors",
                  severity |-> Min(10, churn.authorCount)]>>
          ELSE <<>>)
      \o (IF fixes >= 3
          THEN <<[type |-> "frequent-fixes", severity |-> Min(10, fixes)]>>
          ELSE <<>>)
      \o (IF churn.commitsLast30Days >= 5 /\ churn.totalCommits <= 10
          THEN <<[type |-> "recent-rewrites", severity |-> 7]>>
          ELSE <<>>)
      \o (IF totalChange > 1000 * Scale /\ churn.totalCommits > 5
          THEN <<[type |-> "yo-yo-changes",
                  severity |-> Floor(totalChange, 200 * Scale)]>>
          ELSE <<>>)

Evidence(churn, fixes) ==
  LET totalChange == churn.totalInsertions + churn.totalDeletions
  IN  (IF churn.churnScore > 40
       THEN <<[type |-> "high-churn",
               severity |-> Min(10, Floor(churn.churnScore, 5))]>>
       ELSE <<>>)
      \o (IF churn.authorCount >= 4
          THEN <<[type |-> "many-authors",
                  severity |-> Min(10, churn.authorCount)]>>
          ELSE <<>>)
      \o (IF fixes >= 3
          THEN <<[type |-> "frequent-fixes", severity |-> Min(10, fixes)]>>
          ELSE <<>>)
      \o (IF churn.commitsLast30Days >= 5 /\ churn.totalCommits <= 10
          THEN <<[type |-> "recent-rewrites", severity |-> 7]>>
          ELSE <<>>)
      \o (IF totalChange > 1000 * Scale /\ churn.totalCommits > 5
          THEN <<[type |-> "yo-yo-changes",
                  severity |-> Min(10, Floor(totalChange, 200 * Scale))]>>
          ELSE <<>>)

Recommendation(churn, fixes) ==
  IF fixes >= 3 THEN "Add comprehensive tests and consider a rewrite."
  ELSE IF churn.authorCount >= 4
       THEN "Assign clear ownership and document expected behavior."
  ELSE "Review this file for potential refactoring."

FragileRecord(churn, commits) ==
  LET fixes == fixCommitsPerFile(commits, churn.path)
      evidence == Evidence(churn, fixes)
  IN  [path           |-> churn.path,
       evidence       |-> evidence,
       fragileScore   |-> SumSeq([i \in 1..Len(evidence) |-> evidence[i].severity]),
       recommendation |-> Recommendation(churn, fixes)]

\* The fragile files before the sort and the cap of 20.
FragileCandidates(fileChurn, commits) ==
  LET all == [i \in 1..Len(fileChurn) |-> FragileRecord(fileChurn[i], commits)]
  IN  Filter(all, [i \in 1..Len(all) |-> Len(all[i].evidence) > 0])

identifyFragileFiles(fileChurn, commits) ==
  LET found == FragileCandidates(fileChurn, commits)
  IN  Slice(SortDescending(found, [i \in 1..Len(found) |-> found[i].fragileScore]),
            20)

\* --------------------------------------------------------- commit pattern

\* Loop "Find longest gap": gap > longestGapDays is a comparison of a real
\* with an integer number of days, the assignment floors the gap.
RECURSIVE LongestGap(_, _, _)
LongestGap(commits, i, longestGapDays) ==
  IF i > Len(commits) - 1 THEN longestGapDays
  ELSE LET gap == commits[i].timestamp - commits[i + 1].timestamp
       IN  LongestGap(commits, i + 1,
                      IF gap > longestGapDays * Day THEN Floor(gap, Day)
                      ELSE longestGapDays)

\* new Date(t).toISOString().split("T")[0]: the calendar day of t.
DateOf(t) == Floor(t, Day)

\* Loop "Find busiest period": state <<maxCommits, busiestPeriod>>.
RECURSIVE BusiestPeriod(_, _, _)
BusiestPeriod(commits, i, best) ==
  IF i > Len(commits) THEN best
  ELSE LET windowEnd == commits[i].timestamp
           windowStart == windowEnd - 30 * Day
           windowCommits == Cardinality({j \in 1..Len(commits) :
                                /\ commits[j].timestamp >= windowStart
                                /\ commits[j].timestamp <= windowEnd})
       IN  BusiestPeriod(commits, i + 1,
             IF windowCommits > best[1]
             THEN <<windowCommits,
                    [start |-> DateOf(windowStart), end |-> DateOf(windowEnd),
                     commits |-> windowCommits]>>
             ELSE best)

\* FrequencyPattern with the average taken per day of the span.
FrequencyPatternPerDay(commits) ==
  LET firstCommit == commits[Len(commits)]
      span == Max(Day, commits[1].timestamp - firstCommit.timestamp)
      averageCommitsPerWeek == Round(Len(commits) * Day * 10, span)
      longestGapDays == LongestGap(commits, 1, 0)
      busiestPeriod == BusiestPeriod(commits, 1, <<0, Null>>)[2]
  IN  [type |-> IF averageCommitsPerWeek >= 5 * 10 THEN "active"
                ELSE IF averageCommitsPerWeek >= 1 * 10 THEN "steady"
                ELSE IF longestGapDays > 30 THEN "sporadic"
                ELSE "burst",
       averageCommitsPerWeek |-> averageCommitsPerWeek,
       longestGapDays |-> longestGapDays,
       busiestPeriod |-> busiestPeriod]

\* analyzeCommitPattern from "Calculate commit frequency" on, for a
\* sequence that is neither empty nor abandoned.  averageCommitsPerWeek is
\* kept in tenths: Math.round(x * 10) without the final division by 10.
\* daySpan is Max(Day, span) / Day.
FrequencyPattern(commits) ==
  LET firstCommit == commits[Len(commits)]
      span == Max(Day, commits[1].timestamp - firstCommit.timestamp)
      averageCommitsPerWeek == Round(Len(commits) * 7 * Day * 10, span)
      longestGapDays == LongestGap(commits, 1, 0)
      busiestPeriod == BusiestPeriod(commits, 1, <<0, Null>>)[2]
  IN  [type |-> IF averageCommitsPerWeek >= 5 * 10 THEN "active"
                ELSE IF averageCommitsPerWeek >= 1 * 10 THEN "steady"
                ELSE IF longestGapDays > 30 THEN "sporadic"
                ELSE "burst",
       averageCommitsPerWeek |-> averageCommitsPerWeek,
       longestGapDays |-> longestGapDays,
       busiestPeriod |-> busiestPeriod]

\* analyzeCommitPattern with the test for 'abandoned' made only for a
\* sequence that is neither 'active' nor 'steady'.
analyzeCommitPatternFrequencyFirst(commits, now) ==
  IF Len(commits) = 0
  THEN [type |-> "abandoned", averageCommitsPerWeek |-> 0,
        longestGapDays |-> 0, busiestPeriod |-> Null]
  ELSE
  LET lastCommitAge == now - commits[1].timestamp
      pattern == FrequencyPattern(commits)
  IN  IF pattern.type \notin {"active", "steady"} /\ lastCommitAge > 180 * Day
      THEN [type |-> "abandoned", averageCommitsPerWeek |-> 0,
            longestGapDays |-> Floor(lastCommitAge, Day),
            busiestPeriod |-> Null]
      ELSE pattern

analyzeCommitPattern(commits, now) ==
  IF Len(commits) = 0
  THEN [type |-> "abandoned", averageCommitsPerWeek |-> 0,
        longestGapDays |-> 0, busiestPeriod |-> Null]
  ELSE
  LET lastCommitAge == now - commits[1].timestamp
  IN  IF lastCommitAge > 180 * Day
      THEN [type |-> "abandoned", averageCommitsPerWeek |-> 0,
            longestGapDays |-> Floor(lastCommitAge, Day),
            busiestPeriod |-> Null]
      ELSE FrequencyPattern(commits)

\* --------------------------------------------------------- timeline

\* The event buildTimeline pushes for a commit that is not a merge; large
\* says whether the description is the one of a large change.
CommitEvent(commit) ==
  [date   |-> commit.timestamp,
   type   |-> IF commit.isRefactor THEN "major-refactor" ELSE "commit",
   large  |-> Len(commit.filesChanged) > 10,
   files  |-> Slice(commit.filesChanged, 5),
   author |-> commit.author]

\* Loop "Add recent significant commits" over commits.slice(0, 20).
CommitEvents(commits) ==
  LET recent == Slice(commits, 20)
      kept == Filter(recent, [i \in 1..Len(recent) |-> ~recent[i].isMerge])
  IN  [i \in 1..Len(kept) |-> CommitEvent(kept[i])]

\* QuietEvents with the event dated at the newer commit of the pair.
QuietEventsNewer(commits) ==
  LET pairs == [i \in 1..Len(commits) - 1 |->
                  [date    |-> commits[i].timestamp,
                   type    |-> "quiet-period",
                   gapDays |-> Floor(commits[i].timestamp
                                       - commits[i + 1].timestamp, Day)]]
  IN  Filter(pairs, [i \in 1..Len(pairs) |->
                       commits[i].timestamp - commits[i + 1].timestamp
                         > 14 * Day])

\* Loop "Detect quiet periods (gaps > 14 days)".
QuietEvents(commits) ==
  LET pairs == [i \in 1..Len(commits) - 1 |->
                  [date    |-> commits[i + 1].timestamp,
                   type    |-> "quiet-period",
                   gapDays |-> Floor(commits[i].timestamp
                                       - commits[i + 1].timestamp, Day)]]
  IN  Filter(pairs, [i \in 1..Len(pairs) |->
                       commits[i].timestamp - commits[i + 1].timestamp
                         > 14 * Day])

buildTimeline(commits) ==
  LET events == CommitEvents(commits) \o QuietEvents(commits)
  IN  SortDescending(events, [i \in 1..Len(events) |-> events[i].date])

\* ------------------------------------------------------ analyzeGitHistory

\* The quick lookups of analyzeGitHistory.

\* highChurnFiles without the sort by churn score.
highChurnFilesUnsorted(fileChurn) == Keys(Slice(fileChurn, 10))

highChurnFiles(fileChurn) ==
  Keys(Slice(SortDescending(fileChurn,
                            [i \in 1..Len(fileChurn) |-> fileChurn[i].churnScore]),
             10))

multiAuthorFiles(fileChurn) ==
  Keys(Filter(fileChurn,
              [i \in 1..Len(fileChurn) |-> fileChurn[i].authorCount >= 3]))

recentlyFragile(fragileFiles) ==
  Keys(Slice(Filter(fragileFiles,
                    [i \in 1..Len(fragileFiles) |->
                       fragileFiles[i].fragileScore > 5]),
             10))

\* analyzeGitHistory without the check of log.total.
analyzeGitHistoryNoEmptyCheck(gitDirExists, entries, fault, nowChurn, nowPattern) ==
  IF ~gitDirExists THEN Null
  ELSE IF fault /= "none" THEN Null
  ELSE
  LET commits == processCommits(entries)
      fileChurn == analyzeFileChurn(commits, nowChurn)
      fileOwnership == analyzeFileOwnership(fileChurn, commits)
      authorStats == analyzeAuthorStats(commits)
      fragileFiles == identifyFragileFiles(fileChurn, commits)
  IN  [totalCommits     |-> Len(commits),
       totalAuthors     |-> Len(authorStats),
       authorStats      |-> authorStats,
       fileChurn        |-> fileChurn,
       fileOwnership    |-> fileOwnership,
       hotPaths         |-> identifyHotPaths(fileChurn),
       stableCore       |-> identifyStableCore(fileChurn),
       fragileFiles     |-> fragileFiles,
       commitPattern    |-> analyzeCommitPattern(commits, nowPattern),
       timeline         |-> buildTimeline(commits),
       recentCommits    |-> Slice(commits, 50),
       highChurnFiles   |-> highChurnFiles(fileChurn),
       multiAuthorFiles |-> multiAuthorFiles(fileChurn),
       recentlyFragile  |-> recentlyFragile(fragileFiles)]

\* What the environment does during one call: fault says which step, if
\* any, throws ("log": git.log rejects; "aggregate": a step after the log
\* was read throws); nowChurn and nowPattern are the values Date.now()
\* returns in analyzeFileChurn and, later, in analyzeCommitPattern.
analyzeGitHistory(gitDirExists, entries, fault, nowChurn, nowPattern) ==
  IF ~gitDirExists THEN Null
  ELSE IF fault = "log" THEN Null
  ELSE IF Len(entries) = 0 THEN Null
  ELSE IF fault = "aggregate" THEN Null
  ELSE
  LET commits == processCommits(entries)
      fileChurn == analyzeFileChurn(commits, nowChurn)
      fileOwnership == analyzeFileOwnership(fileChurn, commits)
      authorStats == analyzeAuthorStats(commits)
      fragileFiles == identifyFragileFiles(fileChurn, commits)
  IN  [totalCommits     |-> Len(commits),
       totalAuthors     |-> Len(authorStats),
       authorStats      |-> authorStats,
       fileChurn        |-> fileChurn,
       fileOwnership    |-> fileOwnership,
       hotPaths         |-> identifyHotPaths(fileChurn),
       stableCore       |-> identifyStableCore(fileChurn),
       fragileFiles     |-> fragileFiles,
       commitPattern    |-> analyzeCommitPattern(commits, nowPattern),
       timeline         |-> buildTimeline(commits),
       recentCommits    |-> Slice(commits, 50),
       highChurnFiles   |-> highChurnFiles(fileChurn),
       multiAuthorFiles |-> multiAuthorFiles(fileChurn),
       recentlyFragile  |-> recentlyFragile(fragileFiles)]

\* ---------------------------------------------------------------- cache

\* The paths the callers use as keys of the cache.
RepoPaths == {"", "/repo", "/other"}

\* JavaScript truthiness of a string and of an object reference.
TruthyString(x) == x \notin {"", NullString, UndefinedString}
TruthyObject(x) == x \notin {Null, Undefined}

\* x || null
OrNull(x) == IF TruthyObject(x) THEN x ELSE Null

\* entry?.field
Chain(entry, field) == IF entry = Undefined THEN Undefined ELSE entry[field]

\* Map.prototype.get
MapGet(map, key) == IF key \in DOMAIN map THEN map[key] ELSE Undefined

\* new RepoCache()
NewRepoCache ==
  [cache |-> [p \in RepoPaths |-> Undefined], lastAnalyzedPath |-> NullString]

\* RepoCache.set that keeps the entry a path already has.
RepoCache_setIfAbsent(rc, path, analysis, snapshot, hist) ==
  [cache |-> IF rc.cache[path] /= Undefined THEN rc.cache
             ELSE [rc.cache EXCEPT ![path] =
                     [analysis |-> analysis, snapshot |-> snapshot,
                      history |-> hist]],
   lastAnalyzedPath |-> path]

RepoCache_set(rc, path, analysis, snapshot, hist) ==
  [cache |-> [rc.cache EXCEPT ![path] =
                [analysis |-> analysis, snapshot |-> snapshot,
                 history |-> hist]],
   lastAnalyzedPath |-> path]

\* const targetPath = path || this.lastAnalyzedPath
TargetPath(rc, path) == IF TruthyString(path) THEN path ELSE rc.lastAnalyzedPath

RepoCache_get(rc, path) ==
  LET targetPath == TargetPath(rc, path)
  IN  IF ~TruthyString(targetPath) THEN Null
      ELSE OrNull(Chain(MapGet(rc.cache, targetPath), "analysis"))

RepoCache_getSnapshot(rc, path) ==
  LET targetPath == TargetPath(rc, path)
  IN  IF ~TruthyString(targetPath) THEN Null
      ELSE OrNull(Chain(MapGet(rc.cache, targetPath), "snapshot"))

RepoCache_getHistory(rc, path) ==
  LET targetPath == TargetPath(rc, path)
  IN  IF ~TruthyString(targetPath) THEN Null
      ELSE OrNull(Chain(MapGet(rc.cache, targetPath), "history"))

RepoCache_getCached(rc, path) ==
  LET targetPath == TargetPath(rc, path)
  IN  IF ~TruthyString(targetPath) THEN Null
      ELSE OrNull(MapGet(rc.cache, targetPath))

RepoCache_getLastPath(rc) == rc.lastAnalyzedPath

RepoCache_has(rc, path) == MapGet(rc.cache, path) /= Undefined

\* The reading methods of RepoCache and what each returns.
ReadMethods ==
  {"get", "getSnapshot", "getHistory", "getCached", "getLastPath", "has"}

RepoCache_read(rc, method, path) ==
  CASE method = "get" -> RepoCache_get(rc, path)
    [] method = "getSnapshot" -> RepoCache_getSnapshot(rc, path)
    [] method = "getHistory" -> RepoCache_getHistory(rc, path)
    [] method = "getCached" -> RepoCache_getCached(rc, path)
    [] method = "getLastPath" -> [path |-> RepoCache_getLastPath(rc)]
    [] method = "has" -> [has |-> RepoCache_has(rc, path)]

\* A reading method that remembers the path it was asked for.
RepoCache_afterReadRemembering(rc, method, path) ==
  IF method \in {"getLastPath", "has"} \/ ~TruthyString(path) THEN rc
  ELSE [rc EXCEPT !.lastAnalyzedPath = path]

\* The cache after a reading method: none of them assigns a field or calls
\* a method of the map that changes it.
RepoCache_afterRead(rc, method, path) == rc

\* RepoCache.clear that keeps lastAnalyzedPath.
RepoCache_clearEntriesOnly(rc) ==
  [cache |-> [p \in RepoPaths |-> Undefined],
   lastAnalyzedPath |-> rc.lastAnalyzedPath]

RepoCache_clear(rc) ==
  [cache |-> [p \in RepoPaths |-> Undefined], lastAnalyzedPath |-> NullString]

\* --------------------------------------------------------------- tools

\* What analyzeRepo stores for a repository: the RepoAnalysis it builds and
\* the snapshot scanRepo returns.
AnalysisOf(repoPath) == [path |-> repoPath]
SnapshotOf(repoPath) == [repoPath |-> repoPath]

\* analyzeRepo that caches the snapshot as soon as it is made, before the
\* remaining steps of the analysis.
analyzeRepoEarlyWrite(rc, repoPath, env) ==
  IF env.kind = "missing"
  THEN [outcome |-> "raised", message |-> "Repository path does not exist",
        repoCache |-> rc]
  ELSE IF env.kind /= "directory"
  THEN [outcome |-> "raised", message |-> "Path is not a directory",
        repoCache |-> rc]
  ELSE IF env.fault
  THEN [outcome |-> "raised", message |-> "(error of a step)",
        repoCache |-> RepoCache_set(rc, repoPath, AnalysisOf(repoPath),
                                    SnapshotOf(repoPath), Undefined)]
  ELSE [outcome |-> "success", message |-> "Successfully analyzed",
        repoCache |-> RepoCache_set(rc, repoPath, AnalysisOf(repoPath),
                                    SnapshotOf(repoPath), Undefined)]

\* analyzeRepo called with repoPath when the cache is rc.  env.kind says
\* what the file system has at repoPath, env.fault whether scanRepo or a
\* step of the analysis throws.  The result is how the call ends and the
\* cache it leaves; repoCache.set is called with three arguments, so the
\* history of the entry is undefined.
analyzeRepo(rc, repoPath, env) ==
  IF env.kind = "missing"
  THEN [outcome |-> "raised", message |-> "Repository path does not exist",
        repoCache |-> rc]
  ELSE IF env.kind /= "directory"
  THEN [outcome |-> "raised", message |-> "Path is not a directory",
        repoCache |-> rc]
  ELSE IF env.fault
  THEN [outcome |-> "raised", message |-> "(error of a step)",
        repoCache |-> rc]
  ELSE [outcome |-> "success", message |-> "Successfully analyzed",
        repoCache |-> RepoCache_set(rc, repoPath, AnalysisOf(repoPath),
                                    SnapshotOf(repoPath), Undefined)]

\* Keys every object has without owning them (Object.prototype).
ObjectPrototypeKeys == {"constructor"}

\* record[key] of a Record<string, T> that was built from {}: the entry of
\* the record, else the inherited property, else undefined.
Property(map, key) ==
  IF HasKey(map, key) THEN Lookup(map, key)
  ELSE IF key \in ObjectPrototypeKeys THEN [inherited |-> key]
  ELSE Undefined

\* Array.prototype.find by path
FindPath(s, path) == IF HasKey(s, path) THEN Lookup(s, path) ELSE Undefined

\* The document getHistory returns for a section of history.
HistorySlice(h, section) ==
  IF section = "churn"
  THEN [section |-> "churn",
        highChurnFiles |-> h.highChurnFiles,
        fileChurn |->
          Slice(SortDescending(h.fileChurn,
                               [i \in 1..Len(h.fileChurn) |->
                                  h.fileChurn[i].churnScore]), 30)]
  ELSE IF section = "fragile"
  THEN [section |-> "fragile",
        recentlyFragile |-> h.recentlyFragile,
        fragileFiles |-> h.fragileFiles]
  ELSE [section |-> "all",
        summary |-> [totalCommits |-> h.totalCommits,
                     commitPattern |-> h.commitPattern],
        insights |-> [highChurnFiles |-> h.highChurnFiles,
                      multiAuthorFiles |-> h.multiAuthorFiles,
                      recentlyFragile |-> h.recentlyFragile,
                      stableCore |-> Slice(h.stableCore, 10)],
        fragileFiles |->
          [i \in 1..Len(Slice(h.fragileFiles, 10)) |->
             [path |-> h.fragileFiles[i].path,
              fragileScore |-> h.fragileFiles[i].fragileScore]]]

\* getHistory(repoPath, section) when the cache is rc.
getHistory(rc, repoPath, section) ==
  LET h == RepoCache_getHistory(rc, repoPath)
  IN  IF ~TruthyObject(h)
      THEN IF ~TruthyObject(RepoCache_getSnapshot(rc, repoPath))
           THEN [error |-> "No repository has been analyzed yet. Please run analyze_repo first."]
           ELSE [error |-> "Git history not available. The repository may not have a .git directory."]
      ELSE HistorySlice(h, IF TruthyString(section) THEN section ELSE "all")

\* The narrative of whyIsThisWeird for a file with churn entry churn.
Narrative(h, filePath, churn) ==
  LET ownership == Property(h.fileOwnership, filePath)
      fragile == FindPath(h.fragileFiles, filePath)
      unusual == \/ churn.churnScore > 30
                 \/ churn.authorCount >= 3
                 \/ TruthyObject(fragile)
  IN  [answer |-> "narrative",
       filePath |-> filePath,
       totalCommits |-> churn.totalCommits,
       authors |-> churn.authors,
       churnScore |-> churn.churnScore,
       level |-> IF churn.churnScore > 40 THEN "HIGH"
                 ELSE IF churn.churnScore > 20 THEN "MEDIUM" ELSE "LOW",
       daysSinceLastChange |-> churn.daysSinceLastChange,
       commitsLast30Days |-> churn.commitsLast30Days,
       unusual |-> unusual,
       heavilyModified |-> unusual /\ churn.totalCommits > 20,
       manyHands |-> unusual /\ churn.authorCount >= 3,
       currentlyVolatile |-> unusual /\ churn.commitsLast30Days >= 5,
       recommendation |-> IF unusual /\ TruthyObject(fragile)
                          THEN fragile.recommendation ELSE NullString,
       ownershipClarity |-> IF TruthyObject(ownership)
                            THEN ownership.ownershipClarity ELSE NullString]

\* whyIsThisWeird that looks the file up before it looks at the history.
whyIsThisWeirdFileFirst(rc, filePath, repoPath) ==
  LET h == RepoCache_getHistory(rc, repoPath)
      churn == IF TruthyObject(h) THEN Property(h.fileChurn, filePath)
               ELSE Undefined
  IN  IF ~TruthyObject(churn)
      THEN [answer |-> "No history found", filePath |-> filePath]
      ELSE IF ~TruthyObject(h)
      THEN [answer |-> "Cannot analyze - no git history available. Run analyze_repo first."]
      ELSE IF "inherited" \in DOMAIN churn THEN Raised
      ELSE Narrative(h, filePath, churn)

\* whyIsThisWeird(filePath, repoPath) when the cache is rc.  An inherited
\* property has no authors: churn.authors.join throws a TypeError.
whyIsThisWeird(rc, filePath, repoPath) ==
  LET h == RepoCache_getHistory(rc, repoPath)
  IN  IF ~TruthyObject(h)
      THEN [answer |-> "Cannot analyze - no git history available. Run analyze_repo first."]
      ELSE LET churn == Property(h.fileChurn, filePath)
           IN  IF ~TruthyObject(churn)
               THEN [answer |-> "No history found", filePath |-> filePath]
               ELSE IF "inherited" \in DOMAIN churn THEN Raised
               ELSE Narrative(h, filePath, churn)

\* ------------------------------------------------------------ repositories

AuthorNames == <<"Alice", "Bob", "Charlie", "Dana", "Eve", "Frank", "Grace",
                 "Heidi", "Ivan">>

\* What one commit does: the files its diff against the parent lists, the
\* line totals of its --stat summary and the keywords of its message.
Plain == [files |-> <<"src/app.ts">>, insertions |-> 0, deletions |-> 0,
          message |-> {}]
Fix   == [files |-> <<"src/app.ts">>, insertions |-> 3, deletions |-> 1,
          message |-> {"fix"}]
Big   == [files |-> <<"package.json", "src/app.ts">>, insertions |-> 801,
          deletions |-> 400, message |-> {"feat"}]
Huge  == [files |-> <<"src/app.ts">>, insertions |-> 1500, deletions |-> 600,
          message |-> {"refactor"}]
Deps  == [files |-> <<"package.json">>, insertions |-> 10, deletions |-> 10,
          message |-> {"bug"}]

Entry(author, age, kind) ==
  [author     |-> AuthorNames[author],
   email      |-> <<AuthorNames[author], "work">>,
   timestamp  |-> AnalysisTime - age,
   message    |-> kind.message,
   files      |-> kind.files,
   insertions |-> kind.insertions,
   deletions  |-> kind.deletions,
   hasParent  |-> TRUE,
   statFails  |-> FALSE]

\* The first commit of the repository: it has no parent.
Root(author, age) == [Entry(author, age, Plain) EXCEPT !.hasParent = FALSE]

\* A run is n commits made in a row by one author at one date, all of one
\* kind.  A repository is described by its runs, newest first; its log is
\* the commits of the runs followed by the root commit.
RECURSIVE Repeat(_, _)
Repeat(x, n) == IF n = 0 THEN <<>> ELSE <<x>> \o Repeat(x, n - 1)

RECURSIVE Expand(_)
Expand(runs) ==
  IF runs = <<>> THEN <<>>
  ELSE Repeat(Entry(Head(runs).author, Head(runs).age, Head(runs).kind),
              Head(runs).n) \o Expand(Tail(runs))

LogOf(runs, rootAge) == Expand(runs) \o <<Root(1, rootAge)>>

RunCommits(runs) == SumSeq([i \in 1..Len(runs) |-> runs[i].n])

\* Descriptions of at most maxRuns runs drawn from runSet.  The runs are
\* newest first, and since author names are only compared for equality the
\* authors are numbered in the order in which they first appear.
MaxAuthor(runs) ==
  IF runs = <<>> THEN 0
  ELSE CHOOSE a \in {runs[i].author : i \in 1..Len(runs)} :
         \A i \in 1..Len(runs) : runs[i].author <= a

CanFollow(runs, r) ==
  /\ r.author <= MaxAuthor(runs) + 1
  /\ runs /= <<>> => runs[Len(runs)].age <= r.age

RECURSIVE RunSeqs(_, _)
RunSeqs(runSet, k) ==
  IF k = 0 THEN {<<>>}
  ELSE LET shorter == RunSeqs(runSet, k - 1)
       IN  shorter \cup
           {Append(s, r) : <<s, r>> \in
              {p \in {q \in shorter : Len(q) = k - 1} \X runSet :
                 CanFollow(p[1], p[2])}}

Descriptions(runSet, maxRuns) == RunSeqs(runSet, maxRuns)

Recent == 1 * Day
Quarter == 45 * Day
Old == 100 * Day
Ancient == 200 * Day

\* Bounds of the general family of repositories: at most MaxVaried single
\* commits of any kind and date, or at most MaxRuns runs of one or two
\* commits, all runs of a repository made on one day.
MaxVaried == 2
MaxRuns == 3

VariedRuns ==
  [n : {1}, author : 1..MaxVaried, age : {Recent, Quarter, Old},
   kind : {Plain, Big, Huge, Deps}]

SameDayRuns(age) ==
  [n : {1, 2}, author : 1..MaxRuns, age : {age}, kind : {Fix, Big}]

OldestAge(runs) == IF runs = <<>> THEN Old ELSE runs[Len(runs)].age

ChurnLogs ==
  {LogOf(d, OldestAge(d)) :
     d \in Descriptions(VariedRuns, MaxVaried)
           \cup Descriptions(SameDayRuns(Recent), MaxRuns)
           \cup Descriptions(SameDayRuns(Old), MaxRuns)}

\* Bounds of the family of repositories with one file and many authors: at
\* most NumAuthors authors, every author with one run, and at most
\* MaxCommits commits in the log.
NumAuthors == 7
MaxCommits == 24

OwnerRuns(age) ==
  [n : {1, 5, 7, 16}, author : 1..NumAuthors, age : {age}, kind : {Plain}]

RECURSIVE OwnerSeqs(_, _)
OwnerSeqs(age, k) ==
  IF k = 0 THEN {<<>>}
  ELSE LET shorter == OwnerSeqs(age, k - 1)
       IN  shorter \cup
           {Append(p[1], p[2]) : p \in
              {q \in {t \in shorter : Len(t) = k - 1} \X OwnerRuns(age) :
                 /\ q[2].author = k
                 /\ RunCommits(q[1]) + q[2].n + 1 <= MaxCommits}}

OwnerLogs ==
  {LogOf(d, OldestAge(d)) :
     d \in OwnerSeqs(Recent, NumAuthors) \cup OwnerSeqs(Old, NumAuthors)}

\* Bounds of the family of repositories in which only the commit dates
\* vary: at most MaxGaps gaps of any length between the commits, or at most
\* MaxSpread commits spread evenly over a period.
MaxGaps == 2
MaxSpread == 20

NewestAges == {Recent, 10 * Day, 180 * Day, Ancient}
GapLengths == {0, 12, 10 * Day, 20 * Day, 30 * Day + 12, 31 * Day, 100 * Day}
Periods == {7 * Day, 14 * Day, 60 * Day}

RECURSIVE GapSeqs(_)
GapSeqs(k) ==
  IF k = 0 THEN {<<>>}
  ELSE LET shorter == GapSeqs(k - 1)
       IN  shorter \cup
           {Append(s, g) : s \in {t \in shorter : Len(t) = k - 1},
                           g \in GapLengths}

\* ages[i] is the age of the i-th newest commit; the oldest is the root.
DatedLog(ages) ==
  [i \in 1..Len(ages) |->
     IF i = Len(ages) THEN Root(1, ages[i]) ELSE Entry(1, ages[i], Plain)]

AgesOfGaps(newest, gaps) ==
  [i \in 1..Len(gaps) + 1 |-> newest + SumSeq(SubSeq(gaps, 1, i - 1))]

AgesOfSpread(newest, n, period) ==
  [i \in 1..n |-> newest + ((i - 1) * period) \div (n - 1)]

PatternLogs ==
  {DatedLog(AgesOfGaps(a, g)) : a \in NewestAges, g \in GapSeqs(MaxGaps)}
  \cup {DatedLog(AgesOfSpread(a, n, p)) :
          a \in NewestAges, n \in 2..MaxSpread, p \in Periods}

\* Bounds of the family of repositories with many files: a commit changes
\* the first k of at most MaxFiles files, and there are at most MaxTouches
\* such commits.
MaxFiles == 17
MaxTouches == 3

WidePaths ==
  <<"src/config/db.ts", "lib/a.ts", "lib/b.ts", "lib/c.ts", "lib/d.ts",
    "lib/e.ts", "lib/f.ts", "lib/g.ts", "lib/h.ts", "lib/i.ts", "lib/j.ts",
    "lib/k.ts", "lib/l.ts", "lib/m.ts", "lib/n.ts", "lib/o.ts", "lib/p.ts",
    "lib/q.ts", "lib/r.ts", "lib/s.ts">>

Touch(k) == [files |-> SubSeq(WidePaths, 1, k), insertions |-> 0,
             deletions |-> 0, message |-> {}]

WideRuns ==
  [n : {1}, author : 1..2, age : {60 * Day - 1, Ancient},
   kind : {Touch(2), Touch(MaxFiles - 1), Touch(MaxFiles)}]

WideLogs == {LogOf(d, Ancient) : d \in Descriptions(WideRuns, MaxTouches)}

\* The repositories with many files whose commits are recent fixes that
\* change 1200 lines in each of their files; a commit changes the first k
\* files or the last file only.
HeavyTouch(k) == [files |-> SubSeq(WidePaths, 1, k), insertions |-> 600 * k,
                  deletions |-> 600 * k, message |-> {"fix"}]
HeavyTail == [files |-> <<WidePaths[MaxFiles]>>, insertions |-> 600,
              deletions |-> 600, message |-> {"fix"}]

HeavyRuns ==
  [n : {1}, author : 1..MaxTouches, age : {Recent},
   kind : {HeavyTouch(2), HeavyTouch(MaxFiles), HeavyTail}]

HeavyLogs == {LogOf(d, Old) : d \in Descriptions(HeavyRuns, MaxTouches)}

\* Bound of the family of repositories with one file that several authors
\* fixed: at most MaxFixers authors in turn.
MaxFixers == 4

\* Author k commits one or three times to src/app.ts, fixes or plain
\* changes.
RECURSIVE FixerSeqs(_)
FixerSeqs(k) ==
  IF k = 0 THEN {<<>>}
  ELSE LET shorter == FixerSeqs(k - 1)
       IN  shorter \cup
           {Append(s, r) :
              s \in {t \in shorter : Len(t) = k - 1},
              r \in [n : {1, 3}, author : {k}, age : {Recent},
                     kind : {Fix, Plain}]}

FixerLogs == {LogOf(d, Old) : d \in FixerSeqs(MaxFixers)}

\* Bound of the family of repositories for the timeline: at most MaxEvents
\* runs, each a single commit, merge or refactoring, or ten commits in a
\* row, made today, 14 days before or an hour earlier than that.
MaxEvents == 3

Merge    == [files |-> <<"src/app.ts">>, insertions |-> 5, deletions |-> 2,
             message |-> {"^merge", "refactor"}]
Refactor == [files |-> <<"src/app.ts">>, insertions |-> 50, deletions |-> 50,
             message |-> {"refactor"}]

TimelineRuns ==
  {[n |-> c[1], author |-> 1, age |-> age, kind |-> c[2]] :
     c \in {<<1, Plain>>, <<10, Plain>>, <<1, Merge>>, <<1, Refactor>>},
     age \in {Recent, Recent + 14 * Day, Recent + 14 * Day + 1}}

TimelineLogs ==
  UNION {{LogOf(d, OldestAge(d)), LogOf(d, Old)} :
           d \in Descriptions(TimelineRuns, MaxEvents)}

\* The repositories in which the --stat diff of one commit, the k-th
\* newest, fails although its --name-only diff succeeded (of no commit when
\* k = 0).
StatFailing(entries, k) ==
  [i \in 1..Len(entries) |->
     IF i = k THEN [entries[i] EXCEPT !.statFails = TRUE] ELSE entries[i]]

StatLogs ==
  UNION {{StatFailing(LogOf(d, Old), k) : k \in 0..RunCommits(d)} :
           d \in Descriptions(SameDayRuns(Recent), MaxVaried)}

\* Bounds of the family of repositories with many volatile files: at most
\* MaxHotRuns runs, whose widest commits change the first MaxHot files.
MaxHot == 22
MaxHotRuns == 2

HotFileNames ==
  <<"package-lock.json">> \o WidePaths \o <<"lib/t.ts", "lib/u.ts", "lib/v.ts">>

\* Commits that change 1200 lines in each of the first k files, commits
\* that change no line of the first three files, and commits that change
\* the last file only, 1200 lines of it or none.
HotFirstLight == [files |-> SubSeq(HotFileNames, 1, 3), insertions |-> 0,
                  deletions |-> 0, message |-> {}]
HotTouch(k) == [files |-> SubSeq(HotFileNames, 1, k), insertions |-> 600 * k,
                deletions |-> 600 * k, message |-> {}]
HotLast == [files |-> <<HotFileNames[MaxHot]>>, insertions |-> 600,
            deletions |-> 600, message |-> {}]
HotLastLight == [files |-> <<HotFileNames[MaxHot]>>, insertions |-> 0,
                 deletions |-> 0, message |-> {}]

HotRuns ==
  {[n |-> c[1], author |-> 1, age |-> age, kind |-> c[2]] :
     c \in {<<5, HotLastLight>>, <<1, HotLast>>, <<5, HotLast>>,
            <<2, HotFirstLight>>, <<1, HotTouch(MaxHot)>>,
            <<2, HotTouch(MaxHot)>>},
     age \in {Recent, Old}}

HotLogs == {LogOf(d, Ancient) : d \in Descriptions(HotRuns, MaxHotRuns)}

\* The repositories whose one file was changed 100 days ago by three or by
\* MaxFixers authors, one commit each.
ManyHandsLogs ==
  {LogOf([i \in 1..k |-> [n |-> 1, author |-> i, age |-> Old, kind |-> Plain]],
         Ancient) : k \in {MaxFixers - 1, MaxFixers}}

\* The repositories for the author statistics: runs of one or two commits
\* to two files, made today or 45 days ago by at most MaxVaried authors; the
\* k newest commits carry the home address of their author instead of the
\* work address.
AtHome(entries, k) ==
  [i \in 1..Len(entries) |->
     IF i <= k THEN [entries[i] EXCEPT !.email = <<entries[i].author, "home">>]
     ELSE entries[i]]

AuthorRuns ==
  [n : {1, 2}, author : 1..MaxVaried, age : {Recent, Quarter}, kind : {Big}]

AuthorLogs ==
  UNION {{AtHome(LogOf(d, Old), k) : k \in 0..RunCommits(d) + 1} :
           d \in Descriptions(AuthorRuns, MaxVaried)}

\* The repositories whose newest commit is about 180 days old: runs of one
\* or two commits made 179 days, an hour less than 180 days, 180 days or
\* 200 days ago.
BoundaryRuns ==
  [n : {1, 2}, author : {1}, kind : {Plain, Deps},
   age : {179 * Day, 180 * Day - 1, 180 * Day, Ancient}]

BoundaryLogs ==
  {LogOf(d, Ancient) : d \in Descriptions(BoundaryRuns, MaxVaried)}

\* Commits that change a file of a dependency, with and without a file of
\* the repository.
Vendor == [files |-> <<"node_modules/lib/index.js", "src/app.ts">>,
           insertions |-> 40, deletions |-> 2, message |-> {"add"}]
VendorOnly == [files |-> <<"node_modules/lib/index.js">>,
               insertions |-> 7, deletions |-> 0, message |-> {"add"}]

\* The repositories of the reading tools: the root commit alone, or after
\* it commits to a dependency, three fixes of src/app.ts, or both.
ToolLogs ==
  LET run(n, kind) == [n |-> n, author |-> 1, age |-> Recent, kind |-> kind]
  IN  {LogOf(d, Old) :
         d \in {<<>>, <<run(1, VendorOnly)>>, <<run(1, Vendor)>>,
                <<run(3, Fix)>>, <<run(1, VendorOnly), run(3, Fix)>>}}

\* ------------------------------------------------------------- operations

\* Date.now() in analyzeCommitPattern minus Date.now() in analyzeFileChurn:
\* nothing, or two units of the model's time.
ClockDrift == {0, 2}

Calls ==
  [fault : {"none"}, nowChurn : {AnalysisTime},
   nowPattern : {AnalysisTime + d : d \in ClockDrift}]
  \cup [fault : {"log", "aggregate"}, nowChurn : {AnalysisTime},
        nowPattern : {AnalysisTime}]

AnalyzeGitHistory ==
  \E c \in Calls :
    /\ call' = c
    /\ history' = analyzeGitHistory(gitDir, log, c.fault, c.nowChurn, c.nowPattern)
    /\ UNCHANGED <<gitDir, log, repoCache, ops, reply>>

Next == AnalyzeGitHistory

InitRepo(logs) ==
  /\ gitDir \in BOOLEAN
  /\ log \in (IF gitDir THEN logs \cup {<<>>} ELSE {<<>>})
  /\ call = NoCall
  /\ history = NotAnalyzed
  /\ repoCache = NewRepoCache
  /\ ops = <<>>
  /\ reply = NoReply

Init == InitRepo(ChurnLogs)
InitOwnership == InitRepo(OwnerLogs)
InitPattern == InitRepo(PatternLogs)

Spec == Init /\ [][Next]_vars
SpecOwnership == InitOwnership /\ [][Next]_vars
SpecPattern == InitPattern /\ [][Next]_vars

InitWide == InitRepo(WideLogs)
SpecWide == InitWide /\ [][Next]_vars

InitHeavy == InitRepo(HeavyLogs)
SpecHeavy == InitHeavy /\ [][Next]_vars

InitFixers == InitRepo(FixerLogs)
SpecFixers == InitFixers /\ [][Next]_vars

InitTimeline == InitRepo(TimelineLogs)
SpecTimeline == InitTimeline /\ [][Next]_vars

InitStat == InitRepo(StatLogs)
SpecStat == InitStat /\ [][Next]_vars

InitAuthors == InitRepo(AuthorLogs)
SpecAuthors == InitAuthors /\ [][Next]_vars

InitBoundary == InitRepo(BoundaryLogs)
SpecBoundary == InitBoundary /\ [][Next]_vars

\* The repositories with many volatile files and those with many authors.
InitHot == InitRepo(HotLogs \cup FixerLogs \cup ManyHandsLogs)
SpecHot == InitHot /\ [][Next]_vars

\* All three families of repositories together.
InitAll == InitRepo(ChurnLogs \cup OwnerLogs \cup PatternLogs)
SpecAll == InitAll /\ [][Next]_vars

\* Bound of the number of calls that are made on the cache.
MaxOps == 3

\* A repository with two commits, and the history of it that a caller
\* passes to repoCache.set.
SampleLog == LogOf(<<[n |-> 1, author |-> 1, age |-> Recent, kind |-> Fix]>>, Old)
SampleHistory ==
  analyzeGitHistory(TRUE, SampleLog, "none", AnalysisTime, AnalysisTime)

\* The analysis, the snapshot and the history a caller passes to
\* repoCache.set.
TestValues ==
  {[analysis |-> [name |-> "test-repo"], snapshot |-> [repoName |-> "test-repo"],
    history |-> SampleHistory],
   [analysis |-> [name |-> "updated-repo"], snapshot |-> [repoName |-> "updated"],
    history |-> Null]}

\* What the file system can have at repoPath, and whether a step fails.
RepoEnvs(repoPath) ==
  IF repoPath = "" THEN {[kind |-> "missing", fault |-> FALSE]}
  ELSE {[kind |-> "missing", fault |-> FALSE], [kind |-> "file", fault |-> FALSE],
        [kind |-> "directory", fault |-> TRUE],
        [kind |-> "directory", fault |-> FALSE]}

\* repoCache.set(path, analysis, snapshot, history)
Set(paths, values) ==
  /\ Len(ops) < MaxOps
  /\ \E path \in paths, v \in values :
       /\ repoCache' = RepoCache_set(repoCache, path, v.analysis, v.snapshot,
                                     v.history)
       /\ ops' = Append(ops, [op |-> "set", path |-> path,
                              analysis |-> v.analysis,
                              snapshot |-> v.snapshot,
                              history |-> v.history])
  /\ UNCHANGED <<gitDir, log, call, history, reply>>

\* repoCache.clear()
Clear ==
  /\ Len(ops) < MaxOps
  /\ repoCache' = RepoCache_clear(repoCache)
  /\ ops' = Append(ops, [op |-> "clear"])
  /\ UNCHANGED <<gitDir, log, call, history, reply>>

\* analyzeRepo(repoPath); ops records the cache the call found.
AnalyzeRepo(paths) ==
  /\ Len(ops) < MaxOps
  /\ \E repoPath \in paths :
       \E env \in RepoEnvs(repoPath) :
         LET r == analyzeRepo(repoCache, repoPath, env)
         IN  /\ repoCache' = r.repoCache
             /\ ops' = Append(ops, [op |-> "analyzeRepo", path |-> repoPath,
                                    env |-> env, outcome |-> r.outcome,
                                    message |-> r.message,
                                    before |-> repoCache])
  /\ UNCHANGED <<gitDir, log, call, history, reply>>

\* The cache with its direct callers and analyzeRepo.
NextCache ==
  \/ Set(RepoPaths, TestValues)
  \/ Clear
  \/ AnalyzeRepo({"/repo", "/other"})

InitCache ==
  /\ gitDir = TRUE
  /\ log = SampleLog
  /\ call = NoCall
  /\ history = NotAnalyzed
  /\ repoCache = NewRepoCache
  /\ ops = <<>>
  /\ reply = NoReply

SpecCache == InitCache /\ [][NextCache]_vars

\* A reading method of repoCache; reply records its result. A path can be
\* left out of the methods that look up the last analyzed path.
Read(paths) ==
  /\ \E method \in ReadMethods :
       \E path \in IF method = "getLastPath" THEN {UndefinedString}
                   ELSE IF method = "has" THEN paths
                   ELSE paths \cup {UndefinedString} :
         /\ repoCache' = RepoCache_afterRead(repoCache, method, path)
         /\ reply' = [tool |-> "repoCache", method |-> method, path |-> path,
                      value |-> RepoCache_read(repoCache, method, path)]
  /\ UNCHANGED <<gitDir, log, call, history, ops>>

\* The cache with every method of the class: its two writers and its
\* readers.
NextReads ==
  \/ Set(RepoPaths, TestValues)
  \/ Clear
  \/ Read(RepoPaths)

SpecReads == InitCache /\ [][NextReads]_vars

\* The arguments of the reading tools.
PathArgs == {UndefinedString, "/repo", "/other"}
SectionArgs == {UndefinedString, "fragile"}
FilePathArgs == {"src/app.ts", "node_modules/lib/index.js", "constructor"}

\* getHistory(repoPath, section); reply records the cache the call found.
GetHistory ==
  /\ \E repoPath \in PathArgs, section \in SectionArgs :
       reply' = [tool |-> "getHistory", repoPath |-> repoPath,
                 section |-> section, cache |-> repoCache,
                 result |-> getHistory(repoCache, repoPath, section)]
  /\ UNCHANGED <<gitDir, log, call, history, repoCache, ops>>

\* whyIsThisWeird(filePath, repoPath); reply records the cache the call
\* found.
WhyIsThisWeird ==
  /\ \E filePath \in FilePathArgs, repoPath \in PathArgs :
       reply' = [tool |-> "whyIsThisWeird", repoPath |-> repoPath,
                 filePath |-> filePath, cache |-> repoCache,
                 result |-> whyIsThisWeird(repoCache, filePath, repoPath)]
  /\ UNCHANGED <<gitDir, log, call, history, repoCache, ops>>

\* What a caller that analyzed the repository at /repo passes to
\* repoCache.set: the result of analyzeGitHistory as history.
CallerValues ==
  IF history \in {NotAnalyzed, Raised} THEN {}
  ELSE {[analysis |-> AnalysisOf("/repo"), snapshot |-> SnapshotOf("/repo"),
         history |-> history]}

\* The history analysis, the cache and the reading tools.
NextTools ==
  \/ AnalyzeGitHistory
  \/ Set({"/repo"}, CallerValues)
  \/ Clear
  \/ GetHistory
  \/ WhyIsThisWeird

InitTools == InitRepo(ToolLogs)
SpecTools == InitTools /\ [][NextTools]_vars

\* --------------------------------------------------------------- claims

\* The call returned a GitHistory.
Analyzed == history \notin {NotAnalyzed, Null, Raised}

\* The commit sequence the analysis worked on.
Commits == processCommits(log)

\* Commits that changed path, and those of them made by author.
Touching(path) ==
  {i \in 1..Len(Commits) : Contains(Commits[i].filesChanged, path)}
TouchingBy(path, author) ==
  {i \in Touching(path) : Commits[i].author = author}
AuthorsOf(path) == {Commits[i].author : i \in Touching(path)}

MaxOf(S) == CHOOSE x \in S : \A y \in S : y <= x

\* Number of commits of the author with the most commits to path.
TopCommits(path) ==
  MaxOf({Cardinality(TouchingBy(path, a)) : a \in AuthorsOf(path)})

Elements(s) == {s[i] : i \in 1..Len(s)}
NoDuplicates(s) == \A i, j \in 1..Len(s) : s[i] = s[j] => i = j

GitHistoryFields ==
  {"totalCommits", "fileChurn", "fileOwnership", "stableCore", "fragileFiles",
   "commitPattern", "recentCommits", "highChurnFiles", "multiAuthorFiles",
   "recentlyFragile", "timeline", "hotPaths", "totalAuthors", "authorStats"}

\* C1: analyzeGitHistory never raises; it returns null exactly when there
\* is no .git directory, the log has no commits, or reading the log or a
\* later step throws, and otherwise a complete GitHistory whose
\* totalCommits is at least 1.
C1_NullOrComplete ==
  call /= NoCall =>
    /\ history /= Raised
    /\ history = Null <=> (~gitDir \/ Len(log) = 0 \/ call.fault /= "none")
    /\ history /= Null =>
         /\ DOMAIN history = GitHistoryFields
         /\ history.totalCommits = Len(log)
         /\ history.totalCommits >= 1

\* A repository with a .git directory and no commit was analyzed without
\* any failure, and the result is null.
C1_Witness ==
  /\ call /= NoCall
  /\ call.fault = "none"
  /\ gitDir
  /\ log = <<>>
  /\ history = Null

\* Entries of a record map of the result.
FileChurnOf(path) == Lookup(history.fileChurn, path)
OwnershipOf(path) == Lookup(history.fileOwnership, path)
ChurnPaths == Elements(Keys(history.fileChurn))

\* The verdict of the claim C2 for a file whose top contributor made top of
\* its total commits and which has n contributors; percent(top, total) is
\* the share compared with the thresholds.
ExactVerdict(n, top, total) ==
  IF n >= 3 /\ 100 * top < 50 * total THEN "disputed"
  ELSE IF n >= 2 /\ 100 * top < 70 * total THEN "shared"
  ELSE "clear"

RoundedVerdict(n, top, total) ==
  IF n >= 3 /\ Round(100 * top, total) < 50 THEN "disputed"
  ELSE IF n >= 2 /\ Round(100 * top, total) < 70 THEN "shared"
  ELSE "clear"

\* C2 as stated: the verdict is 'disputed' if the file has at least 3
\* contributors and the top share is below 50%, 'shared' if it has at least
\* 2, the top share is below 70% and it is not disputed, 'clear' otherwise,
\* with the count and the share taken over all contributors.
C2_ExactShare ==
  Analyzed =>
    \A path \in ChurnPaths :
      OwnershipOf(path).ownershipClarity =
        ExactVerdict(Cardinality(AuthorsOf(path)), TopCommits(path),
                     Cardinality(Touching(path)))

\* C2 amended: as C2, with the top share rounded to the nearest whole
\* percent before it is compared with 50 and 70.
C2_RoundedShare ==
  Analyzed =>
    \A path \in ChurnPaths :
      /\ OwnershipOf(path).ownershipClarity \in {"clear", "shared", "disputed"}
      /\ OwnershipOf(path).ownershipClarity =
           RoundedVerdict(Cardinality(AuthorsOf(path)), TopCommits(path),
                          Cardinality(Touching(path)))

\* A file has more contributors than the record keeps, its top contributor
\* is not the first to appear in the log, and the verdict is 'disputed'.
C2_Witness ==
  /\ Analyzed
  /\ \E path \in ChurnPaths :
       /\ Cardinality(AuthorsOf(path)) > 5
       /\ Cardinality(TouchingBy(path, Commits[1].author)) < TopCommits(path)
       /\ OwnershipOf(path).ownershipClarity = "disputed"

\* C3 as stated: a file touched by exactly one commit has churnScore at
\* most 2 and ownershipClarity 'clear'.
C3_SingleCommitAtMostTwo ==
  Analyzed =>
    \A path \in ChurnPaths :
      Cardinality(Touching(path)) = 1 =>
        /\ FileChurnOf(path).churnScore <= 2
        /\ OwnershipOf(path).ownershipClarity = "clear"

\* C3 amended: a file touched by exactly one commit has ownershipClarity
\* 'clear' and churnScore at most 26; the score is at most 2 exactly when
\* the commit is not within the last 90 days and the file's share of its
\* line changes is at most 500.
C3_SingleCommitBounded ==
  Analyzed =>
    \A path \in ChurnPaths :
      Cardinality(Touching(path)) = 1 =>
        LET fc == FileChurnOf(path)
            commit == Commits[CHOOSE i \in Touching(path) : TRUE]
            lines == ((commit.insertions + commit.deletions) * Scale)
                       \div Len(commit.filesChanged)
        IN  /\ OwnershipOf(path).ownershipClarity = "clear"
            /\ fc.churnScore <= 26
            /\ fc.churnScore <= 2 <=>
                 /\ ~(commit.timestamp > call.nowChurn - 90 * Day)
                 /\ lines <= 500 * Scale

\* A file touched by one commit, made within the last 30 days and changing
\* more than 1000 lines, has churnScore 26.
C3_Witness ==
  /\ Analyzed
  /\ \E path \in ChurnPaths :
       /\ Cardinality(Touching(path)) = 1
       /\ FileChurnOf(path).commitsLast30Days = 1
       /\ FileChurnOf(path).churnScore = 26

FragilePaths == {history.fragileFiles[i].path : i \in 1..Len(history.fragileFiles)}
FragileOf(path) ==
  history.fragileFiles[CHOOSE i \in 1..Len(history.fragileFiles) :
                         history.fragileFiles[i].path = path]
EvidenceTypes(f) == {f.evidence[i].type : i \in 1..Len(f.evidence)}

\* C4 as stated: no path is both in stableCore and in fragileFiles.
C4_Disjoint ==
  Analyzed => Elements(history.stableCore) \cap FragilePaths = {}

\* C4 amended: a path that is both in stableCore and in fragileFiles carries
\* 'frequent-fixes' as its only evidence; no path of stableCore has
\* 'high-churn', 'many-authors', 'recent-rewrites' or 'yo-yo-changes'
\* evidence.
C4_OnlyFrequentFixes ==
  Analyzed =>
    \A path \in Elements(history.stableCore) \cap FragilePaths :
      /\ EvidenceTypes(FragileOf(path)) = {"frequent-fixes"}
      /\ Len(FragileOf(path).evidence) = 1

\* A path is in stableCore and in fragileFiles.
C4_Witness ==
  /\ Analyzed
  /\ Elements(history.stableCore) \cap FragilePaths /= {}

\* Timestamp of the newest commit of the log.
NewestTimestamp == MaxOf({log[i].timestamp : i \in 1..Len(log)})
OldestTimestamp == 0 - MaxOf({0 - log[i].timestamp : i \in 1..Len(log)})

\* C5: when the newest commit is more than 180 days older than the time of
\* the analysis, commitPattern.type is 'abandoned'.
C5_Abandoned ==
  Analyzed =>
    (call.nowPattern - NewestTimestamp > 180 * Day
       => history.commitPattern.type = "abandoned")

\* Twenty commits within one week, the newest more than 180 days old, were
\* analyzed and the pattern is 'abandoned'.
C5_Witness ==
  /\ Analyzed
  /\ Len(log) >= 20
  /\ NewestTimestamp - OldestTimestamp <= 7 * Day
  /\ call.nowPattern - NewestTimestamp > 180 * Day
  /\ history.commitPattern.type = "abandoned"

\* The churn score of the claim C6, from the five inputs it names.
ClaimedChurnScore(totalCommits, authorCount, commitsLast30Days,
                  commitsLast90Days, totalChanges) ==
  Min(2 * totalCommits, 30)
  + (IF authorCount > 1 THEN 5 * (authorCount - 1) ELSE 0)
  + (IF authorCount > 3 THEN 10 ELSE 0)
  + 3 * commitsLast30Days
  + commitsLast90Days
  + (IF totalChanges > 500 * Scale THEN 10 ELSE 0)
  + (IF totalChanges > 1000 * Scale THEN 10 ELSE 0)

ChurnInputs(fc) ==
  <<fc.totalCommits, fc.authorCount, fc.commitsLast30Days,
    fc.commitsLast90Days, fc.totalInsertions + fc.totalDeletions>>

\* C6: the churnScore of every FileChurn entry is non-negative and equals
\* the formula of the claim applied to totalCommits, authorCount,
\* commitsLast30Days, commitsLast90Days and totalInsertions +
\* totalDeletions; entries equal in these inputs have equal scores.
C6_ChurnScoreFormula ==
  Analyzed =>
    /\ \A path \in ChurnPaths :
         LET fc == FileChurnOf(path)
         IN  /\ fc.churnScore >= 0
             /\ fc.churnScore =
                  ClaimedChurnScore(fc.totalCommits, fc.authorCount,
                                    fc.commitsLast30Days, fc.commitsLast90Days,
                                    fc.totalInsertions + fc.totalDeletions)
    /\ \A p1, p2 \in ChurnPaths :
         ChurnInputs(FileChurnOf(p1)) = ChurnInputs(FileChurnOf(p2))
           => FileChurnOf(p1).churnScore = FileChurnOf(p2).churnScore

\* A file with more than 15 commits by more than 3 authors was scored.
C6_Witness ==
  /\ Analyzed
  /\ \E path \in ChurnPaths :
       /\ FileChurnOf(path).totalCommits > 15
       /\ FileChurnOf(path).authorCount > 3

\* C7: in every FileChurn entry authorCount is the length of authors and
\* authors names nobody twice.
C7_AuthorsDistinct ==
  Analyzed =>
    \A path \in ChurnPaths :
      /\ FileChurnOf(path).authorCount = Len(FileChurnOf(path).authors)
      /\ NoDuplicates(FileChurnOf(path).authors)
      /\ Elements(FileChurnOf(path).authors) = AuthorsOf(path)

\* An author changed a file in several commits, and the file has a second
\* author.
C7_Witness ==
  /\ Analyzed
  /\ \E path \in ChurnPaths :
       /\ \E a \in AuthorsOf(path) : Cardinality(TouchingBy(path, a)) > 1
       /\ FileChurnOf(path).authorCount >= 2

\* C8: fileOwnership has exactly one entry per path of fileChurn, and the
\* commit counts of all contributors of a path add up to the totalCommits
\* of its FileChurn entry.
C8_OwnershipTotals ==
  Analyzed =>
    /\ Keys(history.fileOwnership) = Keys(history.fileChurn)
    /\ NoDuplicates(Keys(history.fileOwnership))
    /\ \A path \in ChurnPaths :
         LET all == Contributors(FileChurnOf(path), Commits)
             kept == OwnershipOf(path).contributors
         IN  /\ SumSeq([i \in 1..Len(all) |-> all[i].commits])
                  = FileChurnOf(path).totalCommits
             /\ Len(all) <= 5 => kept = all

\* A file has more contributors than its record keeps, so that the counts
\* in the record add up to less than totalCommits.
C8_Witness ==
  /\ Analyzed
  /\ \E path \in ChurnPaths :
       LET kept == OwnershipOf(path).contributors
       IN  /\ Cardinality(AuthorsOf(path)) > 5
           /\ SumSeq([i \in 1..Len(kept) |-> kept[i].commits])
                < FileChurnOf(path).totalCommits

\* The gaps between adjacent commits of the log, in hours.
Gaps == {log[i].timestamp - log[i + 1].timestamp : i \in 1..Len(log) - 1}
LongestGapHours == IF Gaps = {} THEN 0 ELSE MaxOf(Gaps)

\* round(10 * count / (daySpan / 7)), the average of the claim C9 in
\* tenths, with daySpan = max(1, days between newest and oldest commit).
ClaimedAverage ==
  Round(10 * Len(log) * 7 * Day, Max(Day, NewestTimestamp - OldestTimestamp))

ClaimedPattern(gapExceeds30Days) ==
  IF ClaimedAverage >= 50 THEN "active"
  ELSE IF ClaimedAverage >= 10 THEN "steady"
  ELSE IF gapExceeds30Days THEN "sporadic"
  ELSE "burst"

NotAbandoned == call.nowPattern - NewestTimestamp <= 180 * Day

\* 20 commits spread evenly over two weeks.
ScenarioD ==
  /\ Len(log) = 20
  /\ NewestTimestamp - OldestTimestamp = 14 * Day
  /\ \A g \in Gaps : g \in {17, 18}

\* C9 as stated: when the newest commit is at most 180 days old, the type
\* is 'active' for an average of at least 5 commits per week, 'steady' for
\* at least 1, otherwise 'sporadic' if the longest gap between adjacent
\* commits exceeds 30 days, otherwise 'burst'.
C9_ExactGap ==
  (Analyzed /\ NotAbandoned) =>
    /\ history.commitPattern.averageCommitsPerWeek = ClaimedAverage
    /\ history.commitPattern.type = ClaimedPattern(LongestGapHours > 30 * Day)
    /\ ScenarioD => history.commitPattern.type = "active"

\* C9 amended: as C9, where the longest gap is counted in whole days,
\* rounded down, so that 'sporadic' needs a gap of at least 31 days.
C9_WholeDayGap ==
  (Analyzed /\ NotAbandoned) =>
    /\ history.commitPattern.averageCommitsPerWeek = ClaimedAverage
    /\ history.commitPattern.type =
         ClaimedPattern(Floor(LongestGapHours, Day) > 30)
    /\ history.commitPattern.longestGapDays = Floor(LongestGapHours, Day)
    /\ ScenarioD => history.commitPattern.type = "active"

\* 20 commits spread evenly over two weeks were analyzed, and the pattern is
\* 'active' with an average of 10 commits per week.
C9_Witness ==
  /\ Analyzed
  /\ NotAbandoned
  /\ ScenarioD
  /\ history.commitPattern.type = "active"
  /\ history.commitPattern.averageCommitsPerWeek = 100

FixCount(path) == Cardinality({i \in Touching(path) : Commits[i].isFix})

\* The evidence conditions of the claim C10 that fire for a file.
Fired(path) ==
  LET fc == FileChurnOf(path)
      totalChanges == fc.totalInsertions + fc.totalDeletions
  IN  {t \in {"high-churn", "many-authors", "frequent-fixes",
              "recent-rewrites", "yo-yo-changes"} :
         \/ t = "high-churn" /\ fc.churnScore > 40
         \/ t = "many-authors" /\ fc.authorCount >= 4
         \/ t = "frequent-fixes" /\ FixCount(path) >= 3
         \/ t = "recent-rewrites" /\ fc.commitsLast30Days >= 5
                                  /\ fc.totalCommits <= 10
         \/ t = "yo-yo-changes" /\ totalChanges > 1000 * Scale
                                /\ fc.totalCommits > 5}

\* A file with 3 authors, 5 commits and 2 fix commits.
ScenarioA(path) ==
  /\ FileChurnOf(path).authorCount = 3
  /\ FileChurnOf(path).totalCommits = 5
  /\ FixCount(path) = 2

QualifiesAsStable(fc) ==
  /\ fc.totalCommits >= 2
  /\ fc.daysSinceLastChange >= 60
  /\ fc.churnScore <= 15
  /\ ~IsConfigPath(fc.path)

StablePaths == {fc.path : fc \in {f \in Elements(history.fileChurn) : QualifiesAsStable(f)}}

\* The files that come before path when the qualifying files are put in
\* ascending order of churn score, files of equal score in fileChurn order.
StableAhead(path) ==
  {q \in StablePaths :
     \/ FileChurnOf(q).churnScore < FileChurnOf(path).churnScore
     \/ /\ FileChurnOf(q).churnScore = FileChurnOf(path).churnScore
        /\ IndexOf(history.fileChurn, q) < IndexOf(history.fileChurn, path)}

\* C11: stableCore lists, without repetition and in ascending order of
\* churn score, at most 15 files; each of them has at least 2 commits, at
\* least 60 days since its last change, a churn score of at most 15 and a
\* path that is not a configuration path; a qualifying file is left out
\* only when 15 files are listed, none of which has a higher score; and a
\* qualifying file last changed 200 days ago or more, with 2 commits by one
\* author, is listed when fewer than 15 qualifying files come before it.
C11_StableCore ==
  Analyzed =>
    LET core == history.stableCore
    IN  /\ Len(core) <= 15
        /\ NoDuplicates(core)
        /\ Elements(core) \subseteq StablePaths
        /\ \A i \in 1..Len(core) : \A j \in i..Len(core) :
             FileChurnOf(core[i]).churnScore <= FileChurnOf(core[j]).churnScore
        /\ \A q \in StablePaths \ Elements(core) :
             /\ Len(core) = 15
             /\ \A e \in Elements(core) :
                  FileChurnOf(e).churnScore <= FileChurnOf(q).churnScore
        /\ \A q \in StablePaths :
             (/\ FileChurnOf(q).daysSinceLastChange >= 200
              /\ FileChurnOf(q).totalCommits = 2
              /\ FileChurnOf(q).authorCount = 1
              /\ Cardinality(StableAhead(q)) < 15) => q \in Elements(core)

\* Sixteen files qualify and do not all have the same score: fifteen are
\* listed, among them a file with 2 commits by one author that was last
\* changed 200 days ago, and the file of highest score is left out.
C11_Witness ==
  /\ Analyzed
  /\ Len(history.stableCore) = 15
  /\ \E q \in StablePaths \ Elements(history.stableCore) :
       \E e \in Elements(history.stableCore) :
         /\ FileChurnOf(e).churnScore < FileChurnOf(q).churnScore
         /\ FileChurnOf(e).daysSinceLastChange >= 200
         /\ FileChurnOf(e).totalCommits = 2
         /\ FileChurnOf(e).authorCount = 1
  /\ \E f \in Elements(history.fileChurn) :
       IsConfigPath(f.path) /\ f.totalCommits >= 2 /\ f.churnScore <= 15

\* The evidence items of all fragile files.
AllEvidence ==
  UNION {Elements(history.fragileFiles[i].evidence) :
           i \in 1..Len(history.fragileFiles)}

\* C12: every evidence item of every fragile file has a severity between 1
\* and 10 inclusive.
C12_SeverityRange ==
  Analyzed => \A e \in AllEvidence : e.severity \in 1..10

\* Evidence whose severity was cut down to 10, next to evidence below 10:
\* a file with more than 2000 changed lines in more than 5 commits, and
\* 'frequent-fixes' or 'recent-rewrites' evidence of lower severity.
C12_Witness ==
  /\ Analyzed
  /\ \E i \in 1..Len(history.fragileFiles) :
       LET f == history.fragileFiles[i]
           fc == FileChurnOf(f.path)
       IN  /\ fc.totalInsertions + fc.totalDeletions > 2200 * Scale
           /\ [type |-> "yo-yo-changes", severity |-> 10] \in Elements(f.evidence)
  /\ \E e \in AllEvidence : e.severity < 10

\* Index in ops of the last clear, 0 when there was none.
LastClear ==
  IF \E i \in 1..Len(ops) : ops[i].op = "clear"
  THEN MaxOf({i \in 1..Len(ops) : ops[i].op = "clear"}) ELSE 0

\* The calls since the last clear that wrote the entry of path p, and all
\* such calls: repoCache.set, and analyzeRepo when it succeeded.
IsWrite(i) ==
  \/ ops[i].op = "set"
  \/ ops[i].op = "analyzeRepo" /\ ops[i].outcome = "success"
Writes == {i \in LastClear + 1..Len(ops) : IsWrite(i)}
WritesOf(p) == {i \in Writes : ops[i].path = p}

\* What the i-th call, a write, passed to repoCache.set.
Written(i) ==
  IF ops[i].op = "set"
  THEN [analysis |-> ops[i].analysis, snapshot |-> ops[i].snapshot,
        history |-> ops[i].history]
  ELSE [analysis |-> AnalysisOf(ops[i].path),
        snapshot |-> SnapshotOf(ops[i].path), history |-> Undefined]

\* C15: for every non-empty path p, get(p), getSnapshot(p), getHistory(p)
\* and getCached(p) return what the most recent set of p since the last
\* clear was passed (null for a history that was passed as null or not
\* passed), has(p) is true, and when p was not set since the last clear
\* they return null and has(p) is false.
C15_MostRecentSet ==
  \A p \in RepoPaths \ {""} :
    IF WritesOf(p) = {}
    THEN /\ RepoCache_get(repoCache, p) = Null
         /\ RepoCache_getSnapshot(repoCache, p) = Null
         /\ RepoCache_getHistory(repoCache, p) = Null
         /\ RepoCache_getCached(repoCache, p) = Null
         /\ ~RepoCache_has(repoCache, p)
    ELSE LET w == Written(MaxOf(WritesOf(p)))
         IN  /\ RepoCache_get(repoCache, p) = w.analysis
             /\ RepoCache_getSnapshot(repoCache, p) = w.snapshot
             /\ RepoCache_getHistory(repoCache, p) =
                  (IF w.history \in {Null, Undefined} THEN Null ELSE w.history)
             /\ RepoCache_getCached(repoCache, p) = w
             /\ RepoCache_has(repoCache, p)

\* A path was set with a history, another path was set, and the first path
\* was set again with another analysis and a null history.
C15_Witness ==
  /\ Len(ops) = 3
  /\ ops[1].op = "set" /\ ops[2].op = "set" /\ ops[3].op = "set"
  /\ ops[1].path = "/repo" /\ ops[3].path = "/repo" /\ ops[2].path = "/other"
  /\ ops[1].analysis /= ops[3].analysis
  /\ ops[1].history /= Null /\ ops[3].history = Null

\* C16: getLastPath() is the path of the most recent set since the last
\* clear, null when there was none; get(), getSnapshot(), getHistory() and
\* getCached() without a path return what they return for that path, and
\* null when it is null.
C16_LastPath ==
  LET last == IF Writes = {} THEN NullString ELSE ops[MaxOf(Writes)].path
  IN  /\ RepoCache_getLastPath(repoCache) = last
      /\ IF last = NullString
         THEN /\ RepoCache_get(repoCache, UndefinedString) = Null
              /\ RepoCache_getSnapshot(repoCache, UndefinedString) = Null
              /\ RepoCache_getHistory(repoCache, UndefinedString) = Null
              /\ RepoCache_getCached(repoCache, UndefinedString) = Null
         ELSE /\ RepoCache_get(repoCache, UndefinedString)
                   = RepoCache_get(repoCache, last)
              /\ RepoCache_getSnapshot(repoCache, UndefinedString)
                   = RepoCache_getSnapshot(repoCache, last)
              /\ RepoCache_getHistory(repoCache, UndefinedString)
                   = RepoCache_getHistory(repoCache, last)
              /\ RepoCache_getCached(repoCache, UndefinedString)
                   = RepoCache_getCached(repoCache, last)

\* A path was set, the cache was cleared and another path was set: the
\* calls without a path answer for the second path.
C16_Witness ==
  /\ Len(ops) = 3
  /\ ops[1].op = "set" /\ ops[2].op = "clear" /\ ops[3].op = "set"
  /\ ops[1].path = "/repo" /\ ops[3].path = "/other"
  /\ RepoCache_get(repoCache, UndefinedString) = ops[3].analysis

\* The last call made on the cache.
LastOp == ops[Len(ops)]

\* C17: analyzeRepo raises when the path does not exist or is not a
\* directory; after a call of analyzeRepo that raised, the entries of the
\* cache and the last analyzed path are what they were before the call;
\* after a call that succeeded, getLastPath() is the path of the call.
C17_FailureKeepsCache ==
  /\ \A i \in 1..Len(ops) :
       (ops[i].op = "analyzeRepo" /\ ops[i].env.kind /= "directory")
         => ops[i].outcome = "raised"
  /\ (Len(ops) > 0 /\ LastOp.op = "analyzeRepo") =>
       IF LastOp.outcome = "raised"
       THEN repoCache = LastOp.before
       ELSE /\ LastOp.outcome = "success"
            /\ RepoCache_getLastPath(repoCache) = LastOp.path
            /\ RepoCache_has(repoCache, LastOp.path)

\* analyzeRepo failed in a step after the validation of the path, when the
\* cache held an entry of another path; and before that it had succeeded.
C17_Witness ==
  /\ Len(ops) = 3
  /\ ops[1].op = "analyzeRepo" /\ ops[1].outcome = "success"
  /\ ops[1].path = "/other"
  /\ ops[2].op = "set" /\ ops[2].path = "/other"
  /\ ops[3].op = "analyzeRepo" /\ ops[3].outcome = "raised"
  /\ ops[3].path = "/repo" /\ ops[3].env.kind = "directory"
  /\ RepoCache_getLastPath(repoCache) = "/other"

\* Paths of the fragile files with a score above 5, in fragileFiles order.
ScoredFragile ==
  Filter(Keys(history.fragileFiles),
         [i \in 1..Len(history.fragileFiles) |->
            history.fragileFiles[i].fragileScore > 5])

ManyRecentlyFragile == Analyzed /\ Len(ScoredFragile) > 10

\* The paths the commits of the log changed, and those of them that the
\* analysis can read: outside node_modules, changed by a commit with parent.
ChangedPaths ==
  UNION {{log[i].files[j] : j \in 1..Len(log[i].files)} : i \in 1..Len(log)}
ReadablePaths ==
  {path \in UNION {{log[i].files[j] : j \in 1..Len(log[i].files)} :
                     i \in {k \in 1..Len(log) : log[k].hasParent}} :
     ~IncludesNodeModules(path)}
AnsweredNoHistoryFound ==
  /\ reply.tool = "whyIsThisWeird"
  /\ reply.result /= Raised
  /\ reply.result.answer = "No history found"

NoGitHistoryAvailable ==
  [answer |-> "Cannot analyze - no git history available. Run analyze_repo first."]

\* C18: after analyzeRepo(path) succeeded on a repository with at least one
\* commit, repoCache.getHistory(path) is not null, and getHistory and
\* whyIsThisWeird answer from the history instead of reporting that there is
\* none.
C18_HistoryCached ==
  (/\ Len(ops) > 0
   /\ LastOp.op = "analyzeRepo"
   /\ LastOp.outcome = "success"
   /\ gitDir
   /\ Len(log) >= 1) =>
     /\ RepoCache_getHistory(repoCache, LastOp.path) /= Null
     /\ "error" \notin DOMAIN getHistory(repoCache, LastOp.path, UndefinedString)
     /\ whyIsThisWeird(repoCache, "src/app.ts", UndefinedString)
          /= NoGitHistoryAvailable

\* What the cache a reading tool found held as history of the repository
\* the call is about: the entry of repoPath, or of the last analyzed path.
HistoryFound ==
  LET target == IF reply.repoPath /= UndefinedString /\ reply.repoPath /= ""
                THEN reply.repoPath ELSE reply.cache.lastAnalyzedPath
  IN  IF target = NullString THEN Null
      ELSE IF reply.cache.cache[target] = Undefined THEN Null
      ELSE IF reply.cache.cache[target].history = Undefined THEN Null
      ELSE reply.cache.cache[target].history

\* C19: whyIsThisWeird never raises; without history of the target
\* repository in the cache it returns the 'no git history available' message
\* whatever the file path, else for a file path that is not a key of
\* fileChurn the 'No history found' message, else the narrative of the file;
\* getHistory returns an error document whenever no history is cached.
C19_AnswerOrder ==
  /\ reply.tool = "whyIsThisWeird" =>
       /\ reply.result /= Raised
       /\ IF HistoryFound = Null
          THEN reply.result = NoGitHistoryAvailable
          ELSE IF ~HasKey(HistoryFound.fileChurn, reply.filePath)
          THEN reply.result = [answer |-> "No history found",
                               filePath |-> reply.filePath]
          ELSE /\ reply.result.answer = "narrative"
               /\ reply.result.filePath = reply.filePath
  /\ reply.tool = "getHistory" =>
       (HistoryFound = Null <=> "error" \in DOMAIN reply.result)

\* The number of fix commits of the log that changed path and whose files
\* the analysis reads.
FixesOf(path) ==
  Cardinality({i \in 1..Len(log) :
                 /\ log[i].hasParent
                 /\ path \in Elements(log[i].files)
                 /\ isFix(log[i].message)})

\* C20: the recommendation of a fragile file is the first match of: author
\* count >= 4, 'assign clear ownership'; fix-commit count >= 3, 'add tests
\* and consider a rewrite'; else 'review for refactoring'.  A file with both
\* gets the ownership recommendation.
C20_FirstMatch ==
  Analyzed =>
    \A i \in 1..Len(history.fragileFiles) :
      LET f == history.fragileFiles[i]
      IN  f.recommendation =
            IF FileChurnOf(f.path).authorCount >= 4
            THEN "Assign clear ownership and document expected behavior."
            ELSE IF FixesOf(f.path) >= 3
            THEN "Add comprehensive tests and consider a rewrite."
            ELSE "Review this file for potential refactoring."

\* A fragile file with at least 4 authors and at least 3 fix commits.
C20_BothRules ==
  /\ Analyzed
  /\ \E i \in 1..Len(history.fragileFiles) :
       LET f == history.fragileFiles[i]
       IN  /\ FileChurnOf(f.path).authorCount >= 4
           /\ FixesOf(f.path) >= 3

\* The log entries that are no merge commits, in log order.
NonMerge ==
  Filter(log, [i \in 1..Len(log) |-> ~isMerge(log[i].message)])

\* The 'commit' and 'major-refactor' events of the timeline, in its order.
CommitEventsOf(timeline) ==
  Filter(timeline, [i \in 1..Len(timeline) |->
                      timeline[i].type \in {"commit", "major-refactor"}])

\* events[k] is the event of entries[k], for every k.
EventsMatch(events, entries) ==
  /\ Len(events) = Len(entries)
  /\ \A k \in 1..Len(entries) :
       /\ events[k].date = entries[k].timestamp
       /\ events[k].author = entries[k].author
       /\ events[k].type = IF isRefactor(entries[k].message)
                           THEN "major-refactor" ELSE "commit"

\* C21: the timeline has exactly one 'commit' or 'major-refactor' event for
\* each of the 20 most recent commits that are no merges (for each of them
\* when they are fewer), 'major-refactor' exactly for a refactoring, and
\* none for a merge: merges among the newest commits do not reduce the
\* number of events below min(20, number of commits that are no merges).
C21_TwentyNonMerge ==
  Analyzed =>
    /\ EventsMatch(CommitEventsOf(history.timeline), Slice(NonMerge, 20))
    /\ Len(CommitEventsOf(history.timeline)) = Min(20, Len(NonMerge))

\* C22: the extraction yields one record per log entry, in log order, and
\* the record of a commit whose changed-files lookup or line-statistics
\* lookup failed has no files and no inserted or deleted lines.
C22_FailedLookupEmpty ==
  Analyzed =>
    /\ history.totalCommits = Len(log)
    /\ Len(history.recentCommits) = Min(50, Len(log))
    /\ \A i \in 1..Len(history.recentCommits) :
         LET c == history.recentCommits[i]
         IN  /\ c.timestamp = log[i].timestamp
             /\ c.author = log[i].author
             /\ (~log[i].hasParent \/ log[i].statFails) =>
                  /\ c.filesChanged = <<>>
                  /\ c.insertions = 0
                  /\ c.deletions = 0

\* The number of commits in the 30 days that end at the i-th log entry, and
\* the window of that entry as busiestPeriod reports it.
WindowCount(i) ==
  Cardinality({j \in 1..Len(log) :
                 /\ log[j].timestamp >= log[i].timestamp - 30 * Day
                 /\ log[j].timestamp <= log[i].timestamp})
WindowOf(i) ==
  [start   |-> DateOf(log[i].timestamp - 30 * Day),
   end     |-> DateOf(log[i].timestamp),
   commits |-> WindowCount(i)]

\* C23: for a commit sequence that is not empty busiestPeriod is not null:
\* it is the 30-day window ending at a commit in which the most commits lie,
\* and of the windows with the most commits the one that ends at the most
\* recent commit.
C23_BusiestPeriod ==
  Analyzed =>
    /\ history.commitPattern.busiestPeriod /= Null
    /\ \E i \in 1..Len(log) :
         /\ history.commitPattern.busiestPeriod = WindowOf(i)
         /\ \A j \in 1..Len(log) : WindowCount(j) <= WindowCount(i)
         /\ \A j \in 1..Len(log) :
              WindowCount(j) = WindowCount(i) =>
                log[j].timestamp <= log[i].timestamp

\* The files that qualify as hot paths, in fileChurn order.
QualifiesAsHot(fc) ==
  /\ ~IsLockfile(fc.path)
  /\ \/ fc.churnScore > 30
     \/ fc.commitsLast30Days >= 5
     \/ fc.authorCount >= 4
HotQualified ==
  Filter(history.fileChurn,
         [i \in 1..Len(history.fileChurn) |-> QualifiesAsHot(history.fileChurn[i])])
HotListed == Elements(Keys(history.hotPaths))

\* C24: a file whose path is not lockfile-like is a hot path, before the cap
\* of 20, exactly if its churn score is above 30, or it has at least 5
\* commits in the last 30 days, or at least 4 authors; its risk is 'high'
\* exactly if the score is above 50 or there are at least 5 commits in the
\* last 30 days, else 'medium'; hotPaths is sorted by descending churn score
\* and has at most 20 entries.
C24_HotPaths ==
  Analyzed =>
    /\ HotListed \subseteq Elements(Keys(HotQualified))
    /\ NoDuplicates(Keys(history.hotPaths))
    /\ Len(history.hotPaths) = Min(20, Len(HotQualified))
    /\ \A i \in 1..Len(history.hotPaths) :
         LET h == history.hotPaths[i]
             fc == FileChurnOf(h.path)
         IN  /\ h.churnScore = fc.churnScore
             /\ h.riskLevel = IF fc.churnScore > 50 \/ fc.commitsLast30Days >= 5
                              THEN "high" ELSE "medium"
             /\ \A j \in 1..Len(history.hotPaths) :
                  i < j => h.churnScore >= history.hotPaths[j].churnScore
             /\ \A k \in 1..Len(HotQualified) :
                  HotQualified[k].path \notin HotListed =>
                    HotQualified[k].churnScore <= h.churnScore

\* More than 20 files qualify, the lockfile has a score above 30 and is not
\* listed, the file listed first is the last of fileChurn, at high risk,
\* and files at medium risk follow it.
C24_Witness ==
  /\ Analyzed
  /\ Len(HotQualified) > 20
  /\ Len(history.hotPaths) = 20
  /\ FileChurnOf("package-lock.json").churnScore > 30
  /\ history.hotPaths[1].path = history.fileChurn[Len(history.fileChurn)].path
  /\ history.hotPaths[1].riskLevel = "high"
  /\ history.hotPaths[2].riskLevel = "medium"

\* A hot path with 5 commits in the last 30 days and a score of at most 30,
\* and one with 4 authors at medium risk.
RecentOnlyHot ==
  /\ Analyzed
  /\ \E i \in 1..Len(history.hotPaths) :
       /\ history.hotPaths[i].churnScore <= 30
       /\ history.hotPaths[i].riskLevel = "high"
ManyAuthorsHot ==
  /\ Analyzed
  /\ \E i \in 1..Len(history.hotPaths) :
       /\ history.hotPaths[i].authorCount >= 4
       /\ history.hotPaths[i].riskLevel = "medium"

\* The adjacent pairs of the log that are more than 14 days apart: the index
\* of the newer entry of each, in log order.
QuietPairs ==
  Filter([i \in 1..Len(log) - 1 |-> i],
         [i \in 1..Len(log) - 1 |->
            log[i].timestamp - log[i + 1].timestamp > 14 * Day])

\* The 'quiet-period' events of the timeline, in its order.
QuietEventsOf(timeline) ==
  Filter(timeline, [i \in 1..Len(timeline) |->
                      timeline[i].type = "quiet-period"])

\* C25: the timeline has exactly one 'quiet-period' event for every pair of
\* adjacent commits more than 14 days apart, dated at the older commit of
\* the pair, and none for a pair at most 14 days apart; all events together
\* are ordered by non-increasing date.
C25_QuietPeriods ==
  Analyzed =>
    /\ Len(QuietEventsOf(history.timeline)) = Len(QuietPairs)
    /\ \A k \in 1..Len(QuietPairs) :
         QuietEventsOf(history.timeline)[k].date
           = log[QuietPairs[k] + 1].timestamp
    /\ Len(history.timeline)
         = Len(QuietPairs) + Len(CommitEventsOf(history.timeline))
    /\ \A i, j \in 1..Len(history.timeline) :
         i < j => history.timeline[i].date >= history.timeline[j].date

\* A log with a pair of commits exactly 14 days apart and a pair further
\* apart: the timeline has one quiet period, dated at the first commit, after
\* the events of the newer commits.
C25_Witness ==
  /\ Analyzed
  /\ \E i \in 1..Len(log) - 1 :
       log[i].timestamp - log[i + 1].timestamp = 14 * Day
  /\ Len(QuietPairs) = 1
  /\ Len(history.timeline) >= 4
  /\ history.timeline[Len(history.timeline)].type = "quiet-period"
  /\ history.timeline[Len(history.timeline)].date = log[Len(log)].timestamp
  /\ history.timeline[1].date > log[Len(log)].timestamp

\* A pair of commits 14 days and an hour apart, with its quiet period.
QuietByAnHour ==
  /\ Analyzed
  /\ \E k \in 1..Len(QuietPairs) :
       log[QuietPairs[k]].timestamp - log[QuietPairs[k] + 1].timestamp
         = 14 * Day + 1

\* The author names of the log, and the entries of the log of one name.
AuthorNamesOf == {log[i].author : i \in 1..Len(log)}
EntriesOf(name) == {i \in 1..Len(log) : log[i].author = name}
MinOf(S) == CHOOSE x \in S : \A y \in S : x <= y

C27_SingleInstant ==
  (Analyzed /\ history.commitPattern.type = "abandoned") =>
    \A i \in 1..Len(history.fileChurn) :
      /\ history.fileChurn[i].commitsLast30Days = 0
      /\ history.fileChurn[i].commitsLast90Days = 0
      /\ history.fileChurn[i].daysSinceLastChange >= 180

\* C28: every FileChurn entry has 0 <= commitsLast30Days <=
\* commitsLast90Days <= totalCommits and totalCommits >= 1, and with a
\* commit in the last 30 days fewer than 30 days since its last change;
\* hence every file of stableCore has no commit in the last 30 days.
C28_ChurnCounts ==
  Analyzed =>
    /\ \A i \in 1..Len(history.fileChurn) :
         LET fc == history.fileChurn[i]
         IN  /\ 0 <= fc.commitsLast30Days
             /\ fc.commitsLast30Days <= fc.commitsLast90Days
             /\ fc.commitsLast90Days <= fc.totalCommits
             /\ fc.totalCommits >= 1
             /\ fc.commitsLast30Days >= 1 => fc.daysSinceLastChange < 30
    /\ \A i \in 1..Len(history.stableCore) :
         FileChurnOf(history.stableCore[i]).commitsLast30Days = 0

\* A file with a commit in the last 30 days and an older one in the last 90
\* days.
C28_Witness ==
  /\ Analyzed
  /\ \E i \in 1..Len(history.fileChurn) :
       LET fc == history.fileChurn[i]
       IN  /\ fc.commitsLast30Days = 1
           /\ fc.commitsLast90Days = 2
           /\ fc.totalCommits = 2
           /\ fc.daysSinceLastChange < 30

\* A file of the stable core, and a file whose commits are all older than
\* 90 days.
StableWithoutRecent ==
  /\ Analyzed
  /\ Len(history.stableCore) >= 1
  /\ FileChurnOf(history.stableCore[1]).commitsLast90Days = 0

\* C29: no path is both in hotPaths and in stableCore.
C29_HotNotStable ==
  Analyzed => HotListed \cap Elements(history.stableCore) = {}

\* A result with a hot path and a file of the stable core.
C29_Witness ==
  /\ Analyzed
  /\ Len(history.hotPaths) >= 1
  /\ Len(history.stableCore) >= 1
  /\ history.hotPaths[1].riskLevel = "high"

\* A hot path that is old enough for the stable core, its last change being
\* 60 days ago or more, and one that has four authors and no recent commit.
OldHotPath ==
  /\ Analyzed
  /\ \E i \in 1..Len(history.hotPaths) :
       /\ FileChurnOf(history.hotPaths[i].path).daysSinceLastChange >= 60
       /\ FileChurnOf(history.hotPaths[i].path).totalCommits >= 2

OldManyAuthorsHot ==
  /\ Analyzed
  /\ \E i \in 1..Len(history.hotPaths) :
       /\ FileChurnOf(history.hotPaths[i].path).daysSinceLastChange >= 60
       /\ FileChurnOf(history.hotPaths[i].path).authorCount >= 4
       /\ FileChurnOf(history.hotPaths[i].path).commitsLast30Days = 0

\* C30: the last analyzed path is null or a path with an entry; a set
\* changes the entry of its path and the last path only; the reading
\* methods change neither the entries nor the last path.
LastPathCached ==
  \/ RepoCache_getLastPath(repoCache) = NullString
  \/ RepoCache_has(repoCache, RepoCache_getLastPath(repoCache))

SetFrame ==
  (Len(ops') = Len(ops) + 1 /\ ops'[Len(ops')].op = "set") =>
    /\ \A q \in RepoPaths \ {ops'[Len(ops')].path} :
         repoCache'.cache[q] = repoCache.cache[q]
    /\ DOMAIN repoCache'.cache = DOMAIN repoCache.cache

ReadFrame ==
  (Len(ops') = Len(ops)) => repoCache' = repoCache

C30_CacheFrame ==
  [](LastPathCached) /\ [][SetFrame /\ ReadFrame]_vars

\* Two paths are cached, the first of them not the last analyzed one, and
\* the entry of the first has been read.
C30_Witness ==
  /\ Len(ops) >= 2
  /\ ops[1].op = "set" /\ ops[2].op = "set"
  /\ ops[1].path /= ops[2].path
  /\ RepoCache_has(repoCache, ops[1].path)
  /\ RepoCache_getLastPath(repoCache) /= ops[1].path
  /\ reply.tool = "repoCache"
  /\ reply.method = "getCached"
  /\ reply.path = ops[1].path
  /\ reply.value /= Null

====
